---------------------------- MODULE Spec2Model ----------------------------
(***************************************************************************)
(* A model of the image-quality assessment and explanation pipeline of the *)
(* fake-product detection backend:                                        *)
(*   - ExplainabilityModule.generate_textual_reasons  (explainability.py) *)
(*   - ImagePreprocessor.validate_image / preprocess  (preprocessor.py)   *)
(*   - ExplainabilityModule.extract_visual_features,                      *)
(*     compare_with_reference                         (explainability.py) *)
(*   - classify_image and get_components              (main.py)           *)
(*                                                                         *)
(* Feature scores are floats in [0,1] in the code; here a score is the    *)
(* integer number of hundredths (0.65 is 65), so every threshold of the   *)
(* rule table is an exact integer.  Confidence is in percent (0..100).    *)
(***************************************************************************)
EXTENDS Integers, Sequences, FiniteSets, TLC

VARIABLES
    \* ---- generate_textual_reasons(features, prediction, confidence)
    features,       \* the feature mapping passed in (a partial mapping)
    prediction,     \* the label passed in
    confidence,     \* the confidence passed in, percent
    all_reasons,    \* the local list `reasons` just before `return reasons[:5]`
    reasons,        \* the returned list
    rpc,            \* "call" before the call, "done" after it, "idle" when unused
    \* ---- ImagePreprocessor.validate_image / preprocess
    image_bytes,            \* the uploaded buffer, described by what PIL finds in it
    apply_lighting_norm,    \* arguments of preprocess
    apply_glare_reduction,
    detect_product,
    vresult,        \* what validate_image returned
    presult,        \* what preprocess returned, with the methods it called
    ppc,            \* "call", "done" or "idle"
    \* ---- main.py: the module globals and the classify endpoint
    tf_available,   \* TF_AVAILABLE of classifier.py (fixed when the process starts)
    preprocessor,   \* the lazily created components (None until first use)
    classifier,
    explainability,
    db,             \* request ids of the rows of the classifications table
    nrequests,      \* requests received so far (the n-th request has request_id n)
    request,        \* the upload of the latest classify request
    response,       \* the response to the latest classify request
    explained,      \* what the explanation block of that request did
    feedback,       \* the response to the latest feedback submission
    health,         \* the response to the latest health check
    made,           \* history: the component instances get_components constructed
    last_call,      \* history: the latest request and its call of get_components
    \* ---- ExplainabilityModule.extract_visual_features / compare_with_reference
    image_array,    \* the array passed to extract_visual_features
    visual_features,\* the mapping it returned
    fpc,            \* "call", "done" or "idle"
    cfeatures,      \* the feature mapping passed to compare_with_reference
    comparison,     \* the mapping it returned
    cpc,            \* "call", "done" or "idle"
    \* ---- main.py: check_rate_limit, in every server process, and Redis
    redis_key,      \* the key rate_limit:<ip> of one client IP (None: no key)
    limiter,        \* per process: the position in check_rate_limit, its local
                    \* `current` and the outcome of its latest call
    admitted,       \* history: the calls that passed since the key last expired
    checks,         \* history: the calls of check_rate_limit started so far
    \* ---- metrics.py: the global MetricsCollector and the threads calling it
    metrics_collector,  \* the fields of the collector, its lock included
    threads         \* per thread: the method it runs, its arguments, its line

reasonVars == <<features, prediction, confidence, all_reasons, reasons, rpc>>

prepVars == <<image_bytes, apply_lighting_norm, apply_glare_reduction,
              detect_product, vresult, presult, ppc>>

apiVars == <<tf_available, preprocessor, classifier, explainability, db,
             nrequests, request, response, explained, feedback, health,
             made, last_call>>

explVars == <<image_array, visual_features, fpc, cfeatures, comparison, cpc>>

rateVars == <<redis_key, limiter, admitted, checks>>

metricVars == <<metrics_collector, threads>>

vars == <<reasonVars, prepVars, apiVars, explVars, rateVars, metricVars>>

(***************************************************************************)
(* ReasonGenerator: explainability.py, generate_textual_reasons            *)
(***************************************************************************)

FeatureNames ==
    {"logo_clarity", "text_alignment_score", "color_consistency",
     "print_texture_score", "edge_sharpness", "color_deviation"}

Labels == {"Original", "Fake"}

\* The canned sentences, as written in the source.
FakeLogo == "Logo appears blurry or poorly printed compared to authentic products"
FakeText == "Text alignment is inconsistent with genuine packaging standards"
FakeColor == "Color scheme differs from authentic packaging"
FakePrint == "Print quality shows signs of low-resolution reproduction"
FakeEdge == "Packaging edges lack the crispness of genuine products"
FakeStrong == "Multiple visual indicators strongly suggest counterfeit packaging"
FakeWeak == "Several visual features indicate potential counterfeit"
OrigLogo == "Logo shows clear, high-quality printing consistent with authentic products"
OrigText == "Text alignment matches professional packaging standards"
OrigColor == "Color scheme is consistent with authentic packaging"
OrigPrint == "Print quality indicates professional manufacturing"
OrigEdge == "Packaging shows sharp, clean edges typical of genuine products"
OrigStrong == "All visual indicators strongly suggest authentic packaging"

FakeFallback ==
    << "Overall visual quality is below authentic product standards",
       "Packaging details show inconsistencies with genuine products",
       "Manufacturing quality appears lower than expected for authentic items" >>

OriginalFallback ==
    << "Overall visual quality meets authentic product standards",
       "Packaging details are consistent with genuine products",
       "Manufacturing quality appears consistent with authentic items" >>

Range(s) == {s[i] : i \in DOMAIN s}

\* dict.get(key, default)
Get(f, k, default) == IF k \in DOMAIN f THEN f[k] ELSE default

\* `if cond: reasons.append(sentence)`
AppendIf(s, cond, sentence) == IF cond THEN Append(s, sentence) ELSE s

\* The five feature rules of the Fake branch, in source order.
FakeFeatureReasons_LeqLogo(f) ==
    LET r1 == AppendIf(<< >>, Get(f, "logo_clarity", 100) <= 60, FakeLogo)
        r2 == AppendIf(r1, Get(f, "text_alignment_score", 100) < 70, FakeText)
        r3 == AppendIf(r2, Get(f, "color_deviation", 0) > 30, FakeColor)
        r4 == AppendIf(r3, Get(f, "print_texture_score", 100) < 65, FakePrint)
    IN  AppendIf(r4, Get(f, "edge_sharpness", 100) < 50, FakeEdge)

FakeFeatureReasons(f) ==
    LET r1 == AppendIf(<< >>, Get(f, "logo_clarity", 100) < 60, FakeLogo)
        r2 == AppendIf(r1, Get(f, "text_alignment_score", 100) < 70, FakeText)
        r3 == AppendIf(r2, Get(f, "color_deviation", 0) > 30, FakeColor)
        r4 == AppendIf(r3, Get(f, "print_texture_score", 100) < 65, FakePrint)
    IN  AppendIf(r4, Get(f, "edge_sharpness", 100) < 50, FakeEdge)

\* `if confidence > 85: ... elif confidence > 70: ...` of the Fake branch.
FakeConfidenceReason_BothTiers(rs, c) ==
    AppendIf(AppendIf(rs, c > 85, FakeStrong), c > 70, FakeWeak)

FakeConfidenceReason(rs, c) ==
    IF c > 85 THEN Append(rs, FakeStrong)
    ELSE IF c > 70 THEN Append(rs, FakeWeak)
    ELSE rs

\* The five feature rules of the else (Original) branch, in source order.
OriginalFeatureReasons_EdgeFirst(f) ==
    LET r0 == AppendIf(<< >>, Get(f, "edge_sharpness", 0) > 60, OrigEdge)
        r1 == AppendIf(r0, Get(f, "logo_clarity", 0) > 70, OrigLogo)
        r2 == AppendIf(r1, Get(f, "text_alignment_score", 0) > 70, OrigText)
        r3 == AppendIf(r2, Get(f, "color_consistency", 0) > 70, OrigColor)
    IN  AppendIf(r3, Get(f, "print_texture_score", 0) > 70, OrigPrint)

OriginalFeatureReasons(f) ==
    LET r1 == AppendIf(<< >>, Get(f, "logo_clarity", 0) > 70, OrigLogo)
        r2 == AppendIf(r1, Get(f, "text_alignment_score", 0) > 70, OrigText)
        r3 == AppendIf(r2, Get(f, "color_consistency", 0) > 70, OrigColor)
        r4 == AppendIf(r3, Get(f, "print_texture_score", 0) > 70, OrigPrint)
    IN  AppendIf(r4, Get(f, "edge_sharpness", 0) > 60, OrigEdge)

\* `if confidence > 85: ...` of the Original branch.
OriginalConfidenceReason(rs, c) == AppendIf(rs, c > 85, OrigStrong)

\* The rules with the confidence summary put in front of the feature reasons.
RuleReasons_SummaryFirst(f, p, c) ==
    IF p = "Fake"
    THEN FakeConfidenceReason(<< >>, c) \o FakeFeatureReasons(f)
    ELSE OriginalConfidenceReason(<< >>, c) \o OriginalFeatureReasons(f)

\* The reasons of the feature and confidence rules (source lines 325-378).
RuleReasons(f, p, c) ==
    IF p = "Fake"
    THEN FakeConfidenceReason(FakeFeatureReasons(f), c)
    ELSE OriginalConfidenceReason(OriginalFeatureReasons(f), c)

\* `if len(reasons) < 3: reasons.extend([...three sentences...])`
EnsureThree_OneAtATime(rs, p) ==
    LET fb == IF p = "Fake" THEN FakeFallback ELSE OriginalFallback
    IN  IF Len(rs) < 3 THEN rs \o SubSeq(fb, 1, 3 - Len(rs)) ELSE rs

EnsureThree(rs, p) ==
    IF Len(rs) < 3
    THEN rs \o (IF p = "Fake" THEN FakeFallback ELSE OriginalFallback)
    ELSE rs

\* The list before truncation.
ReasonsBeforeTruncation(f, p, c) == EnsureThree(RuleReasons(f, p, c), p)

\* `reasons[:5]`
Min(a, b) == IF a < b THEN a ELSE b

TopFive_NoCut(rs) == rs

TopFive(rs) == SubSeq(rs, 1, Min(5, Len(rs)))

generate_textual_reasons(f, p, c) == TopFive(ReasonsBeforeTruncation(f, p, c))

(***************************************************************************)
(* Inputs of the reason generator.  Each feature is either missing from   *)
(* the mapping or takes a value next to one of the thresholds it is       *)
(* compared with; confidences lie next to the two tiers.                  *)
(***************************************************************************)
LogoSamples == {59, 60, 70, 71}
TextSamples == {69, 70, 71}
ColorConsistencySamples == {69, 70, 71}
PrintSamples == {64, 65, 70, 71}
EdgeSamples == {49, 50, 60, 61}
ColorDeviationSamples == {29, 30, 31}
ConfidenceSamples == {0, 70, 71, 85, 86, 90, 100}

\* Mappings holding all six keys.
FullFeatureMaps ==
    [ logo_clarity : LogoSamples,
      text_alignment_score : TextSamples,
      color_consistency : ColorConsistencySamples,
      print_texture_score : PrintSamples,
      edge_sharpness : EdgeSamples,
      color_deviation : ColorDeviationSamples ]

\* A blurred logo (0.3) with every other feature at the neutral 0.65.
BlurredLogoFeatures ==
    [k \in FeatureNames |-> IF k = "logo_clarity" THEN 30 ELSE 65]

\* Every mapping holding any subset of the six keys (the empty one included),
\* and the blurred-logo mapping.
FeatureMaps ==
    UNION { { [k \in keys |-> g[k]] : g \in FullFeatureMaps } : keys \in SUBSET FeatureNames }
    \cup {BlurredLogoFeatures}

(***************************************************************************)
(* ImagePreprocessor: preprocessor.py                                      *)
(*                                                                         *)
(* A byte buffer is described by what the code observes of it: its length, *)
(* whether Image.open accepts it, the format, size and mode PIL reports,   *)
(* whether verify() and the full decode succeed, and the statistics of its *)
(* pixels that assess_image_quality reads.                                 *)
(***************************************************************************)
max_file_size_mb == 10
target_image_size == 224

\* settings.allowed_formats
settings_allowed_formats == <<"jpeg", "jpg", "png", "heic">>

\* str.upper() on the configured names
Upper(str) ==
    CASE str = "jpeg" -> "JPEG"
      [] str = "jpg" -> "JPG"
      [] str = "png" -> "PNG"
      [] str = "heic" -> "HEIC"
      [] OTHER -> str

\* ImagePreprocessor.__init__
max_file_size == max_file_size_mb * 1024 * 1024
allowed_formats ==
    [i \in DOMAIN settings_allowed_formats |-> Upper(settings_allowed_formats[i])]

\* sep.join(seq)
RECURSIVE Join(_, _)
Join(seq, sep) ==
    IF Len(seq) = 0 THEN ""
    ELSE IF Len(seq) = 1 THEN seq[1]
    ELSE seq[1] \o sep \o Join(Tail(seq), sep)

\* str(e) of the exceptions PIL raises
OpenError == "cannot identify image file"
VerifyError == "broken data stream when reading image file"
LoadError == "image file is truncated"

\* The outcome of a block of code: a returned pair or a raised exception.
Return(ok, reason) == [raised |-> FALSE, exc |-> "", ok |-> ok, reason |-> reason]
Raise(msg) == [raised |-> TRUE, exc |-> msg, ok |-> FALSE, reason |-> ""]

AcceptedModes == {"RGB", "RGBA", "L", "P"}

\* The body of the try block of validate_image (lines 57-82).
ValidateTryBody_DimensionsFirst(b) ==
    IF ~b.opens THEN Raise(OpenError)
    ELSE IF b.width < 50 \/ b.height < 50
    THEN Return(FALSE, "Image dimensions too small (minimum 50x50 pixels)")
    ELSE IF b.width > 10000 \/ b.height > 10000
    THEN Return(FALSE, "Image dimensions too large (maximum 10000x10000 pixels)")
    ELSE IF b.format \notin Range(allowed_formats)
    THEN Return(FALSE, "Unsupported file format: " \o b.format
                       \o ". Allowed formats: " \o Join(allowed_formats, ", "))
    ELSE IF ~b.verifies THEN Raise(VerifyError)
    ELSE IF b.mode \notin AcceptedModes
    THEN Return(FALSE, "Unsupported image mode: " \o b.mode)
    ELSE Return(TRUE, "")

\* validate_image whose dimension limits exclude the sides 50 and 10000.
ValidateTryBody_ExclusiveLimits(b) ==
    IF ~b.opens THEN Raise(OpenError)
    ELSE IF b.format \notin Range(allowed_formats)
    THEN Return(FALSE, "Unsupported file format: " \o b.format
                       \o ". Allowed formats: " \o Join(allowed_formats, ", "))
    ELSE IF ~b.verifies THEN Raise(VerifyError)
    ELSE IF b.width <= 50 \/ b.height <= 50
    THEN Return(FALSE, "Image dimensions too small (minimum 50x50 pixels)")
    ELSE IF b.width >= 10000 \/ b.height >= 10000
    THEN Return(FALSE, "Image dimensions too large (maximum 10000x10000 pixels)")
    ELSE IF b.mode \notin AcceptedModes
    THEN Return(FALSE, "Unsupported image mode: " \o b.mode)
    ELSE Return(TRUE, "")

ValidateTryBody(b) ==
    IF ~b.opens THEN Raise(OpenError)
    ELSE IF b.format \notin Range(allowed_formats)
    THEN Return(FALSE, "Unsupported file format: " \o b.format
                       \o ". Allowed formats: " \o Join(allowed_formats, ", "))
    ELSE IF ~b.verifies THEN Raise(VerifyError)
    ELSE IF b.width < 50 \/ b.height < 50
    THEN Return(FALSE, "Image dimensions too small (minimum 50x50 pixels)")
    ELSE IF b.width > 10000 \/ b.height > 10000
    THEN Return(FALSE, "Image dimensions too large (maximum 10000x10000 pixels)")
    ELSE IF b.mode \notin AcceptedModes
    THEN Return(FALSE, "Unsupported image mode: " \o b.mode)
    ELSE Return(TRUE, "")

\* validate_image without its except clause.
validate_image_NoExcept(b) ==
    IF b.size = 0 THEN Return(FALSE, "Image file is empty")
    ELSE IF b.size > max_file_size
    THEN Return(FALSE, "Image file exceeds "
                       \o ToString(max_file_size \div (1024 * 1024)) \o "MB limit")
    ELSE ValidateTryBody(b)

validate_image(b) ==
    IF b.size = 0 THEN Return(FALSE, "Image file is empty")
    ELSE IF b.size > max_file_size
    THEN Return(FALSE, "Image file exceeds "
                       \o ToString(max_file_size \div (1024 * 1024)) \o "MB limit")
    ELSE LET r == ValidateTryBody(b)
         IN  IF r.raised
             THEN Return(FALSE, "Unable to decode image file: " \o r.exc)
             ELSE r

\* Python's None, where an image is expected.
None == [kind |-> "None"]

\* decode_image: the RGB array of the buffer, or None and the reason.
\* An array is described by its shape, dtype and value range, the operations
\* that produced it (history) and the statistics of the decoded pixels
\* (pixels: they describe the array only while history is <<"decode_image">>).
decode_image(b) ==
    IF b.opens /\ b.loads
    THEN [image |-> [kind |-> "array", width |-> b.width, height |-> b.height,
                     channels |-> 3, dtype |-> "uint8", lo |-> 0, hi |-> 255,
                     pixels |-> b.pixels, history |-> <<"decode_image">>],
          error |-> ""]
    ELSE [image |-> None,
          error |-> "Failed to decode image: "
                    \o (IF b.opens THEN LoadError ELSE OpenError)]

\* get_image_format
get_image_format(b) ==
    IF b.opens /\ b.format # "" THEN b.format ELSE "UNKNOWN"

\* assess_image_quality.  pixels.laplacian_var is the variance of the
\* Laplacian, pixels.bright_permille the share of pixels above 240 in
\* thousandths, pixels.brightness the mean luminance.  quality_score is in
\* ten-thousandths: min(var / 500, 1) is min(20 * var, 10000).
\* assess_image_quality that reports glare at the thresholds themselves.
assess_image_quality_GlareAtThreshold(image) ==
    LET blur_score == Min(20 * image.pixels.laplacian_var, 10000)
        has_glare == image.pixels.bright_permille >= 50 /\ image.pixels.brightness >= 180
    IN  [quality_score |-> IF has_glare THEN (blur_score * 8) \div 10 ELSE blur_score,
         has_glare |-> has_glare]

\* assess_image_quality without the clamp of the blur score to 1.
assess_image_quality_Unclamped(image) ==
    LET blur_score == 20 * image.pixels.laplacian_var
        has_glare == image.pixels.bright_permille > 50 /\ image.pixels.brightness > 180
    IN  [quality_score |-> IF has_glare THEN (blur_score * 8) \div 10 ELSE blur_score,
         has_glare |-> has_glare]

assess_image_quality(image) ==
    LET blur_score == Min(20 * image.pixels.laplacian_var, 10000)
        has_glare == image.pixels.bright_permille > 50 /\ image.pixels.brightness > 180
    IN  [quality_score |-> IF has_glare THEN (blur_score * 8) \div 10 ELSE blur_score,
         has_glare |-> has_glare]

\* reduce_glare, normalize_lighting: same shape, new pixel values.
reduce_glare(image) ==
    [image EXCEPT !.history = Append(@, "reduce_glare")]

normalize_lighting(image) ==
    [image EXCEPT !.history = Append(@, "normalize_lighting")]

\* detect_primary_product: the centre crop to int(0.8 * side).
detect_primary_product(image) ==
    [image EXCEPT !.width = (image.width * 8) \div 10,
                  !.height = (image.height * 8) \div 10,
                  !.history = Append(@, "detect_primary_product")]

\* resize_image that keeps the aspect ratio: the longer side becomes
\* target_size.
resize_image_KeepsAspectRatio(image) ==
    LET longer == IF image.width > image.height THEN image.width ELSE image.height
    IN  [image EXCEPT !.width = (image.width * target_image_size) \div longer,
                      !.height = (image.height * target_image_size) \div longer,
                      !.history = Append(@, "resize_image")]

\* resize_image with the default target (self.target_size, self.target_size).
resize_image(image) ==
    [image EXCEPT !.width = target_image_size,
                  !.height = target_image_size,
                  !.history = Append(@, "resize_image")]

\* normalize_pixels(image, method="simple"): float32, divided by 255.
normalize_pixels_simple(image) ==
    [image EXCEPT !.dtype = "float32",
                  !.lo = image.lo \div 255,
                  !.hi = image.hi \div 255,
                  !.history = Append(@, "normalize_pixels")]

\* One optional or fixed step of preprocess: the image is replaced, the step
\* is recorded in preprocessing_applied and the method in the call log.
Step(st, image, step, method) ==
    [image |-> image,
     applied |-> Append(st.applied, step),
     calls |-> Append(st.calls, method)]

\* `return None, {}, error`
Failed(error, calls) ==
    [image |-> None, metadata |-> << >>, error |-> error, calls |-> calls]

\* preprocess that normalizes the lighting before it reduces glare.
PreprocessDecoded_LightingBeforeGlare(b, image, lighting, glare, product) ==
    LET q == assess_image_quality(image)
        s0 == [image |-> image, applied |-> << >>,
               calls |-> <<"validate_image", "decode_image", "get_image_format",
                           "assess_image_quality">>]
        s1 == IF lighting
              THEN Step(s0, normalize_lighting(s0.image), "lighting_normalization",
                        "normalize_lighting")
              ELSE s0
        s2 == IF glare /\ q.has_glare
              THEN Step(s1, reduce_glare(s1.image), "glare_reduction", "reduce_glare")
              ELSE s1
        s3 == IF product
              THEN Step(s2, detect_primary_product(s2.image), "product_detection",
                        "detect_primary_product")
              ELSE s2
        s4 == Step(s3, resize_image(s3.image), "resize", "resize_image")
        s5 == Step(s4, normalize_pixels_simple(s4.image), "normalize", "normalize_pixels")
    IN  [image |-> s5.image,
         metadata |-> [original_width |-> image.width,
                       original_height |-> image.height,
                       file_format |-> get_image_format(b),
                       file_size_bytes |-> b.size,
                       quality_score |-> q.quality_score,
                       has_glare |-> q.has_glare,
                       preprocessing_applied |-> s5.applied],
         error |-> "",
         calls |-> s5.calls]

\* preprocess that reduces glare whenever the switch is on.
PreprocessDecoded_GlareWheneverEnabled(b, image, lighting, glare, product) ==
    LET q == assess_image_quality(image)
        s0 == [image |-> image, applied |-> << >>,
               calls |-> <<"validate_image", "decode_image", "get_image_format",
                           "assess_image_quality">>]
        s1 == IF glare
              THEN Step(s0, reduce_glare(s0.image), "glare_reduction", "reduce_glare")
              ELSE s0
        s2 == IF lighting
              THEN Step(s1, normalize_lighting(s1.image), "lighting_normalization",
                        "normalize_lighting")
              ELSE s1
        s3 == IF product
              THEN Step(s2, detect_primary_product(s2.image), "product_detection",
                        "detect_primary_product")
              ELSE s2
        s4 == Step(s3, resize_image(s3.image), "resize", "resize_image")
        s5 == Step(s4, normalize_pixels_simple(s4.image), "normalize", "normalize_pixels")
    IN  [image |-> s5.image,
         metadata |-> [original_width |-> image.width,
                       original_height |-> image.height,
                       file_format |-> get_image_format(b),
                       file_size_bytes |-> b.size,
                       quality_score |-> q.quality_score,
                       has_glare |-> q.has_glare,
                       preprocessing_applied |-> s5.applied],
         error |-> "",
         calls |-> s5.calls]

\* The steps of preprocess after a successful decode (lines 329-375).
PreprocessDecoded(b, image, lighting, glare, product) ==
    LET q == assess_image_quality(image)
        s0 == [image |-> image, applied |-> << >>,
               calls |-> <<"validate_image", "decode_image", "get_image_format",
                           "assess_image_quality">>]
        s1 == IF glare /\ q.has_glare
              THEN Step(s0, reduce_glare(s0.image), "glare_reduction", "reduce_glare")
              ELSE s0
        s2 == IF lighting
              THEN Step(s1, normalize_lighting(s1.image), "lighting_normalization",
                        "normalize_lighting")
              ELSE s1
        s3 == IF product
              THEN Step(s2, detect_primary_product(s2.image), "product_detection",
                        "detect_primary_product")
              ELSE s2
        s4 == Step(s3, resize_image(s3.image), "resize", "resize_image")
        s5 == Step(s4, normalize_pixels_simple(s4.image), "normalize", "normalize_pixels")
    IN  [image |-> s5.image,
         metadata |-> [original_width |-> image.width,
                       original_height |-> image.height,
                       file_format |-> get_image_format(b),
                       file_size_bytes |-> b.size,
                       quality_score |-> q.quality_score,
                       has_glare |-> q.has_glare,
                       preprocessing_applied |-> s5.applied],
         error |-> "",
         calls |-> s5.calls]

\* preprocess that goes on after a failed decode.
preprocess_IgnoresDecodeError(b, lighting, glare, product) ==
    LET v == validate_image(b)
        d == decode_image(b)
    IN  IF ~v.ok THEN Failed(v.reason, <<"validate_image">>)
        ELSE IF d.image = None
        THEN [Failed(d.error, <<"validate_image", "decode_image", "get_image_format">>)
                 EXCEPT !.metadata = [file_format |-> get_image_format(b)]]
        ELSE PreprocessDecoded(b, d.image, lighting, glare, product)

\* preprocess(image_bytes, apply_lighting_norm, apply_glare_reduction, detect_product)
preprocess(b, lighting, glare, product) ==
    LET v == validate_image(b)
        d == decode_image(b)
    IN  IF ~v.ok THEN Failed(v.reason, <<"validate_image">>)
        ELSE IF d.image = None
        THEN Failed(d.error, <<"validate_image", "decode_image">>)
        ELSE PreprocessDecoded(b, d.image, lighting, glare, product)

(***************************************************************************)
(* main.py: get_components and classify_image                              *)
(***************************************************************************)
confidence_threshold == 60

\* How Python binds the arguments of a call `f(a1, .., an, k1=.., ..)` to the
\* parameters of `def f(self, p1, .., pm)`: TRUE when the call is accepted,
\* FALSE when it raises TypeError (too many positional arguments, an unknown
\* or doubly given keyword, or a parameter without default left unbound).
CallBinds(params, defaults, npositional, keywords) ==
    /\ npositional <= Len(params)
    /\ keywords \subseteq Range(params)
    /\ \A i \in 1..Len(params) :
          IF i <= npositional
          THEN params[i] \notin keywords
          ELSE params[i] \in keywords \cup defaults

\* def generate_gradcam(self, image, pred_class, model=None)
GradcamParams == <<"image", "pred_class", "model">>
GradcamDefaults == {"model"}
\* def extract_visual_features(self, image)
ExtractParams == <<"image">>
\* def generate_textual_reasons(self, features, prediction, confidence)
ReasonsParams == <<"features", "prediction", "confidence">>

\* str.lower() on the labels predict returns
Lower(label) ==
    CASE label = "Fake" -> "fake"
      [] label = "Original" -> "original"
      [] OTHER -> label

\* The call sites of the explanation block of classify_image (and the
\* heatmap call with the keyword generate_gradcam has, pred_class):
\*   expl.generate_gradcam(preprocessed, class_index=0)
\*   expl.extract_visual_features(preprocessed)
\*   expl.generate_textual_reasons(features, result["label"])
GradcamCallBinds_PredClass == CallBinds(GradcamParams, GradcamDefaults, 1, {"pred_class"})
GradcamCallBinds == CallBinds(GradcamParams, GradcamDefaults, 1, {"class_index"})
ExtractCallBinds == CallBinds(ExtractParams, {}, 1, {})
ReasonsCallBinds == CallBinds(ReasonsParams, {}, 2, {})

\* `explanations = []`, `heatmap_available = False` (lines 611-612), with
\* what the block did: whether generate_gradcam was entered, where the
\* heatmap it returned came from ("none", "classifier" or "random") and the
\* image the features were extracted from.
NotExplained ==
    [explanations |-> << >>, heatmap_available |-> FALSE,
     expl_available |-> FALSE, gradcam_called |-> FALSE,
     features_image |-> None, heatmap |-> "none"]

\* generate_gradcam: a random mock heatmap without TensorFlow, ValueError
\* without a model, the Grad-CAM of the model when the gradient computation
\* works (gradient_ok) and a random default heatmap when it raises.
generate_gradcam(expl, tf, gradient_ok) ==
    IF ~tf THEN [raised |-> FALSE, heatmap |-> "random"]
    ELSE IF expl.model = "None" THEN [raised |-> TRUE, heatmap |-> "none"]
    ELSE IF gradient_ok THEN [raised |-> FALSE, heatmap |-> "classifier"]
    ELSE [raised |-> FALSE, heatmap |-> "random"]

\* The explanation block (lines 610-625).  `extracted` is what
\* extract_visual_features returns for the image it is given.  Any exception
\* leaves explanations and heatmap_available as assigned so far.
Explain(expl, label, conf, preprocessed, extracted, tf, gradient_ok) ==
    LET start == [NotExplained EXCEPT !.expl_available = expl # None]
        wants_heatmap == Lower(label) = "fake"
        gradcam == generate_gradcam(expl, tf, gradient_ok)
        after_heatmap ==
            IF wants_heatmap
            THEN [start EXCEPT !.heatmap_available = gradcam.heatmap # "none",
                               !.gradcam_called = TRUE,
                               !.heatmap = gradcam.heatmap]
            ELSE start
        after_features == [after_heatmap EXCEPT !.features_image = preprocessed]
    IN  IF expl = None THEN start
        ELSE IF wants_heatmap /\ ~GradcamCallBinds THEN start
        ELSE IF wants_heatmap /\ gradcam.raised
        THEN [start EXCEPT !.gradcam_called = TRUE]
        ELSE IF ~ExtractCallBinds THEN after_heatmap
        ELSE IF ~ReasonsCallBinds THEN after_features
        ELSE [after_features EXCEPT
                 !.explanations = generate_textual_reasons(extracted, label, conf)]

\* `metadata.__dict__ if metadata else {}`: a dict has no attribute __dict__,
\* so the expression raises AttributeError for a non-empty metadata dict.
MetadataDictRaises(metadata) == DOMAIN metadata # {}

\* security.validate_image_content: the length and the leading magic bytes.
validate_image_content(upload) ==
    IF upload.buffer.size < 100
    THEN Return(FALSE, "File too small to be a valid image")
    ELSE IF upload.head \in {"JPEG", "PNG", "GIF", "WEBP"}
    THEN Return(TRUE, "")
    ELSE Return(FALSE, "File does not appear to be a valid image format")

\* An HTTP error response (raise HTTPException(status_code, detail)).
HttpError(n, status, detail) ==
    [request_id |-> n, status |-> status, detail |-> detail]

\* get_components that constructs a classifier on every call.
get_components_AlwaysRebuilds(pre, clf, expl, tf, builds, file_exists, loads, id) ==
    LET pre1 == IF pre = None THEN [kind |-> "ImagePreprocessor", id |-> id] ELSE pre
        constructed == tf /\ builds
        clf1 == IF ~constructed THEN None
                ELSE [kind |-> "ProductClassifier", id |-> id,
                      model |-> IF file_exists /\ loads THEN "trained" ELSE "built"]
        expl1 == IF expl = None /\ clf1 # None /\ clf1.model # "None"
                 THEN [kind |-> "ExplainabilityModule", id |-> id, model |-> clf1.model]
                 ELSE expl
    IN  [raised |-> ~constructed,
         preprocessor |-> pre1, classifier |-> IF constructed THEN clf1 ELSE clf,
         explainability |-> IF ~constructed THEN expl ELSE expl1]

\* get_components: the three globals after the call, and whether it raised.
\* `builds` is whether ProductClassifier(num_classes=2) can build its
\* network, `file_exists` whether settings.model_path exists, `loads`
\* whether load_model succeeds; `id` names the objects this call constructs.
get_components(pre, clf, expl, tf, builds, file_exists, loads, id) ==
    LET pre1 == IF pre = None THEN [kind |-> "ImagePreprocessor", id |-> id] ELSE pre
        constructed == tf /\ builds
        clf1 == IF clf # None THEN clf
                ELSE IF ~constructed THEN None
                ELSE [kind |-> "ProductClassifier", id |-> id,
                      model |-> IF file_exists /\ loads THEN "trained" ELSE "built"]
        expl1 == IF expl = None /\ clf1 # None /\ clf1.model # "None"
                 THEN [kind |-> "ExplainabilityModule", id |-> id, model |-> clf1.model]
                 ELSE expl
    IN  [raised |-> clf = None /\ ~constructed,
         preprocessor |-> pre1, classifier |-> clf1,
         explainability |-> IF clf = None /\ ~constructed THEN expl ELSE expl1]

\* health_check: model_loaded, after the call of get_components it makes
\* when the model file exists (an exception of the call is swallowed).
health_check(n, file_exists, comps, db_connected) ==
    LET model_loaded ==
            /\ file_exists
            /\ ~comps.raised
            /\ comps.classifier # None
            /\ comps.classifier.model # "None"
    IN  [request_id |-> n,
         status |-> IF model_loaded /\ db_connected THEN "healthy" ELSE "degraded",
         model_loaded |-> model_loaded,
         database_connected |-> db_connected]

\* submit_feedback for a well-formed request id: 404 unless a classification
\* row with that request id exists.
submit_feedback(request_id, rows, commits) ==
    IF request_id \notin rows
    THEN [request_id |-> request_id, status |-> 404,
          detail |-> "Classification request not found"]
    ELSE IF ~commits
    THEN [request_id |-> request_id, status |-> 500,
          detail |-> "Failed to save feedback"]
    ELSE [request_id |-> request_id, status |-> 200, detail |-> "Feedback received"]

(***************************************************************************)
(* Inputs of the preprocessor.                                             *)
(***************************************************************************)
SizeSamples == {2048, max_file_size, max_file_size + 1}
FormatSamples == {"JPEG", "PNG", "GIF"}
DimensionSamples == {30, 49, 50, 10000, 10001}
ModeSamples == {"RGB", "RGBA", "L", "P", "CMYK"}

\* Pixel statistics: a uniform gray image; a bright image whose share of
\* pixels above 240 is exactly 5%; one whose mean is exactly 180; a sharp
\* image with glare; a glaring image just below the sharpness at which the
\* blur score is clamped, and a dull one exactly at it.
PixelSamples ==
    { [laplacian_var |-> 0, bright_permille |-> 0, brightness |-> 128],
      [laplacian_var |-> 250, bright_permille |-> 50, brightness |-> 181],
      [laplacian_var |-> 250, bright_permille |-> 51, brightness |-> 180],
      [laplacian_var |-> 600, bright_permille |-> 51, brightness |-> 181],
      [laplacian_var |-> 499, bright_permille |-> 51, brightness |-> 181],
      [laplacian_var |-> 500, bright_permille |-> 0, brightness |-> 128] }

NoPixels == [laplacian_var |-> 0, bright_permille |-> 0, brightness |-> 0]

\* A buffer Image.open rejects (the empty buffer among them).
Undecodable(size) ==
    [size |-> size, opens |-> FALSE, format |-> "", verifies |-> FALSE,
     width |-> 0, height |-> 0, mode |-> "", loads |-> FALSE, pixels |-> NoPixels]

\* Buffers with a readable header: intact ones, ones verify() rejects, and
\* ones that pass verify() but whose pixel data cannot be loaded.
Decodable ==
    { [size |-> sz, opens |-> TRUE, format |-> f, verifies |-> v,
       width |-> w, height |-> h, mode |-> m, loads |-> l, pixels |-> px] :
         sz \in SizeSamples, f \in FormatSamples, v \in BOOLEAN,
         w \in DimensionSamples, h \in DimensionSamples, m \in ModeSamples,
         l \in BOOLEAN, px \in PixelSamples \cup {NoPixels} }

Buffers ==
    {Undecodable(sz) : sz \in SizeSamples \cup {0}}
    \cup { b \in Decodable : /\ (b.loads => b.verifies)
                             /\ (b.loads <=> b.pixels # NoPixels) }

NoUpload == [ext |-> "", head |-> "", buffer |-> Undecodable(0)]

\* Nothing constructed, no request served, no construction failed.
NothingMade ==
    [preprocessor |-> {}, classifier |-> {}, explainability |-> {},
     served |-> {}, failed |-> FALSE]

NoCall == [request_id |-> 0, called |-> FALSE, raised |-> FALSE, can_build |-> FALSE]

ApiIdle ==
    /\ feedback = [request_id |-> 0, status |-> 0, detail |-> "no feedback yet"]
    /\ health = [request_id |-> 0, status |-> "none", model_loaded |-> FALSE,
                 database_connected |-> FALSE]
    /\ made = NothingMade
    /\ last_call = NoCall
    /\ tf_available = TRUE
    /\ preprocessor = None
    /\ classifier = None
    /\ explainability = None
    /\ db = {}
    /\ nrequests = 0
    /\ request = NoUpload
    /\ response = [request_id |-> 0, status |-> 0, detail |-> "no request yet"]
    /\ explained = NotExplained

NoResult == [raised |-> FALSE, exc |-> "", ok |-> FALSE, reason |-> "not called"]

PrepIdle ==
    /\ image_bytes = Undecodable(0)
    /\ apply_lighting_norm = TRUE
    /\ apply_glare_reduction = TRUE
    /\ detect_product = FALSE
    /\ vresult = NoResult
    /\ presult = Failed("not called", << >>)
    /\ ppc = "idle"

ReasonsIdle ==
    /\ features = << >>
    /\ prediction = "Original"
    /\ confidence = 0
    /\ all_reasons = << >>
    /\ reasons = << >>
    /\ rpc = "idle"

(***************************************************************************)
(* Rate limiter: main.py, check_rate_limit, and the Redis key it uses.     *)
(*                                                                         *)
(* settings.api_workers server processes share one Redis.  check_rate_limit*)
(* is an async function without an await, so inside one process its calls  *)
(* run one after another; the calls of different processes interleave at   *)
(* the Redis commands.  One client IP is followed, so one key.             *)
(***************************************************************************)
rate_limit_per_hour == 100

NumProcesses == 2

MaxChecks == 6

Processes == 1..NumProcesses

\* A key of Redis: its value and, when it has one, its time to live in seconds.
RedisKey(value, has_expiry, ttl) ==
    [kind |-> "key", value |-> value, has_expiry |-> has_expiry, ttl |-> ttl]

\* INCR: adds one and keeps the time to live; a key that does not exist is
\* created with the value 1 and no time to live.
redis_incr(key) ==
    IF key = None THEN RedisKey(1, FALSE, 0) ELSE [key EXCEPT !.value = @ + 1]

\* check_rate_limit returned: the request goes on.  (A call that has not
\* been made has the outcome kind "not called", one that went on after a
\* swallowed redis.RedisError the kind "RedisError ignored".)
Passed == [kind |-> "return"]

\* A process between two calls of check_rate_limit.
AtStart(outcome) == [pc |-> "start", current |-> None, outcome |-> outcome]

\* The rest of check_rate_limit after the GET answered `current`: the new key,
\* the outcome, and whether the call counts as admitted.
check_rate_limit(current, key) ==
    IF current = None
    THEN [key |-> RedisKey(1, TRUE, 3600), outcome |-> Passed]
    ELSE IF current.value >= rate_limit_per_hour
         THEN [key |-> key,
               outcome |-> [kind |-> "HTTPException", status_code |-> 429,
                            detail |-> "Rate limit exceeded",
                            retry_after |-> "3600"]]
         ELSE [key |-> redis_incr(key), outcome |-> Passed]

RateIdle ==
    /\ redis_key = None
    /\ limiter = [p \in Processes |->
                     [pc |-> "idle", current |-> None,
                      outcome |-> [kind |-> "not called"]]]
    /\ admitted = 0
    /\ checks = 0

(***************************************************************************)
(* MetricsCollector: metrics.py.  Threads call record_request,             *)
(* record_classification and reset on the one global collector; a thread   *)
(* inside a method is at the line it executes next.                        *)
(***************************************************************************)
NumThreads == 2

MaxWindow == 2

MaxRecorded == 3

Threads == 1..NumThreads

StatusCodes == {200, 404, 429}

\* deque(maxlen=window_size).append: a full deque drops its oldest entry.
deque_append(d, x, maxlen) ==
    IF Len(d) >= maxlen THEN Append(Tail(d), x) ELSE Append(d, x)

\* A collector whose methods do not take the lock.
LockIsFree_NoLock(collector) == TRUE

\* `with self.lock`: the lock can be taken when no thread holds it.
LockIsFree(collector) == collector.lock = 0

\* MetricsCollector.__init__(window_size)
MetricsCollector(window_size) ==
    [window_size |-> window_size,
     lock |-> 0,
     request_count |-> 0,
     request_times |-> << >>,
     request_timestamps |-> << >>,
     classification_count |-> 0,
     classification_times |-> << >>,
     classification_labels |-> << >>,
     confidence_scores |-> << >>,
     inference_times |-> << >>,
     error_count |-> 0,
     error_types |-> [c \in StatusCodes |-> 0],
     rate_limit_hits |-> 0]

NotRunning == [method |-> "none", pc |-> "idle"]

\* One line of record_request: the collector after it and the next line.
record_request(m, th, now) ==
    CASE th.pc = "55" ->
           [m |-> [m EXCEPT !.request_count = @ + 1], pc |-> "56"]
      [] th.pc = "56" ->
           [m |-> [m EXCEPT !.request_times =
                       deque_append(@, th.duration_ms, m.window_size)],
            pc |-> "57"]
      [] th.pc = "57" ->
           [m |-> [m EXCEPT !.request_timestamps =
                       deque_append(@, now, m.window_size)],
            pc |-> IF th.status_code >= 400 THEN "60"
                   ELSE IF th.status_code = 429 THEN "64" ELSE "exit"]
      [] th.pc = "60" ->
           [m |-> [m EXCEPT !.error_count = @ + 1], pc |-> "61"]
      [] th.pc = "61" ->
           [m |-> [m EXCEPT !.error_types[th.status_code] = @ + 1],
            pc |-> IF th.status_code = 429 THEN "64" ELSE "exit"]
      [] th.pc = "64" ->
           [m |-> [m EXCEPT !.rate_limit_hits = @ + 1], pc |-> "exit"]

\* One line of record_classification.
record_classification(m, th) ==
    CASE th.pc = "83" ->
           [m |-> [m EXCEPT !.classification_count = @ + 1], pc |-> "84"]
      [] th.pc = "84" ->
           [m |-> [m EXCEPT !.classification_times =
                       deque_append(@, th.processing_time_ms, m.window_size)],
            pc |-> "85"]
      [] th.pc = "85" ->
           [m |-> [m EXCEPT !.classification_labels =
                       deque_append(@, th.label, m.window_size)],
            pc |-> "86"]
      [] th.pc = "86" ->
           [m |-> [m EXCEPT !.confidence_scores =
                       deque_append(@, th.confidence, m.window_size)],
            pc |-> IF th.inference_time_ms # None THEN "89" ELSE "exit"]
      [] th.pc = "89" ->
           [m |-> [m EXCEPT !.inference_times =
                       deque_append(@, th.inference_time_ms.value, m.window_size)],
            pc |-> "exit"]

\* One line of reset.
reset(m, th) ==
    CASE th.pc = "215" -> [m |-> [m EXCEPT !.request_count = 0], pc |-> "216"]
      [] th.pc = "216" -> [m |-> [m EXCEPT !.request_times = << >>], pc |-> "217"]
      [] th.pc = "217" -> [m |-> [m EXCEPT !.request_timestamps = << >>], pc |-> "218"]
      [] th.pc = "218" -> [m |-> [m EXCEPT !.classification_count = 0], pc |-> "219"]
      [] th.pc = "219" -> [m |-> [m EXCEPT !.classification_times = << >>], pc |-> "220"]
      [] th.pc = "220" -> [m |-> [m EXCEPT !.classification_labels = << >>], pc |-> "221"]
      [] th.pc = "221" -> [m |-> [m EXCEPT !.confidence_scores = << >>], pc |-> "222"]
      [] th.pc = "222" -> [m |-> [m EXCEPT !.inference_times = << >>], pc |-> "223"]
      [] th.pc = "223" -> [m |-> [m EXCEPT !.error_count = 0], pc |-> "224"]
      [] th.pc = "224" ->
           [m |-> [m EXCEPT !.error_types = [c \in StatusCodes |-> 0]], pc |-> "225"]
      [] th.pc = "225" -> [m |-> [m EXCEPT !.rate_limit_hits = 0], pc |-> "exit"]

MetricsIdle ==
    /\ metrics_collector = MetricsCollector(1)
    /\ threads = [t \in Threads |-> NotRunning]

(***************************************************************************)
(* FeatureExtractor and ReferenceComparator: explainability.py,            *)
(* extract_visual_features and compare_with_reference.                    *)
(*                                                                         *)
(* A score of this section is the integer number of 1/One of the float    *)
(* the code computes (1.0 is One), with One a multiple of every divisor   *)
(* the code uses, so that each normalisation is exact on the inputs.      *)
(* An array is described by its dtype and largest value and by what the   *)
(* OpenCV and numpy calls measure on it once it is uint8: laplacian_var   *)
(* (variance of the Laplacian of the gray image), quadrant_var (mean over *)
(* the channels of the variance of the four quadrant means) and           *)
(* line_angles (atan2(y2 - y1, x2 - x1) of each line HoughLinesP found,   *)
(* in microradians; the empty list when it found none).                   *)
(***************************************************************************)
One == 120000

\* np.pi / 2, in microradians
HalfPi == 1570796

Max(a, b) == IF a > b THEN a ELSE b
Abs(a) == IF a < 0 THEN -a ELSE a

\* "Ensure image is uint8" (lines 199-204)
ToUint8(img) ==
    IF img.dtype # "uint8"
    THEN IF img.hi <= 1
         THEN [img EXCEPT !.dtype = "uint8", !.hi = 255 * img.hi]
         ELSE [img EXCEPT !.dtype = "uint8"]
    ELSE img

\* _compute_edge_sharpness: min(variance / 1000.0, 1.0)
compute_edge_sharpness(gray) ==
    Min((gray.laplacian_var * One) \div 1000, One)

\* _compute_text_alignment that also takes a line pointing left (an angle
\* near pi) for horizontal.
compute_text_alignment_PiIsHorizontal(gray) ==
    LET angles == [i \in DOMAIN gray.line_angles |-> Abs(gray.line_angles[i])]
        n == Len(angles)
        horizontal == Cardinality({i \in 1..n : \/ Abs(angles[i]) < 200000
                                                \/ Abs(angles[i] - 2 * HalfPi) < 200000})
        vertical == Cardinality({i \in 1..n : Abs(angles[i] - HalfPi) < 200000})
        aligned == horizontal + vertical
    IN  IF n = 0 THEN One \div 2 ELSE (aligned * One) \div n

\* _compute_text_alignment: 0.5 without lines, else the share of the lines
\* whose |angle| is within 0.2 rad of 0 or of pi/2.
compute_text_alignment(gray) ==
    LET angles == [i \in DOMAIN gray.line_angles |-> Abs(gray.line_angles[i])]
        n == Len(angles)
        horizontal == Cardinality({i \in 1..n : Abs(angles[i]) < 200000})
        vertical == Cardinality({i \in 1..n : Abs(angles[i] - HalfPi) < 200000})
        aligned == horizontal + vertical
    IN  IF n = 0 THEN One \div 2 ELSE (aligned * One) \div n

\* _compute_color_consistency without the clamp of the variance term.
compute_color_consistency_Unclamped(img) ==
    One - (img.quadrant_var * One) \div 5000

\* _compute_color_consistency: 1.0 - min(variance / 5000.0, 1.0)
compute_color_consistency(img) ==
    One - Min((img.quadrant_var * One) \div 5000, One)

\* _compute_print_quality: min(variance / 800.0, 1.0)
compute_print_quality(gray) ==
    Min((gray.laplacian_var * One) \div 800, One)

\* extract_visual_features(image)
extract_visual_features(img) ==
    LET im == ToUint8(img)
        gray == im
        consistency == compute_color_consistency(im)
    IN  [logo_clarity |-> compute_edge_sharpness(gray),
         text_alignment_score |-> compute_text_alignment(gray),
         color_consistency |-> consistency,
         print_texture_score |-> compute_print_quality(gray),
         edge_sharpness |-> compute_edge_sharpness(gray),
         color_deviation |-> One - consistency]

\* reference_features of compare_with_reference (0.75, 0.80, 0.75, 0.70, 0.65)
reference_features ==
    [logo_clarity |-> (75 * One) \div 100,
     text_alignment_score |-> (80 * One) \div 100,
     color_consistency |-> (75 * One) \div 100,
     print_texture_score |-> (70 * One) \div 100,
     edge_sharpness |-> (65 * One) \div 100]

\* f"{feature_name}_similarity"
SimilarityKey(feature_name) == feature_name \o "_similarity"

\* sum of the values of a mapping
RECURSIVE SumValues(_)
SumValues(f) ==
    IF DOMAIN f = {} THEN 0
    ELSE LET k == CHOOSE k \in DOMAIN f : TRUE
         IN  f[k] + SumValues([j \in DOMAIN f \ {k} |-> f[j]])

\* The loop of compare_with_reference, run over the reference features
\* instead, with similarity 0 for the ones the input lacks.
PerFeatureSimilarities_ZeroForMissing(feats) ==
    LET names == DOMAIN reference_features
    IN  [key \in {SimilarityKey(nm) : nm \in names} |->
            LET nm == CHOOSE nm \in names : SimilarityKey(nm) = key
            IN  IF nm \in DOMAIN feats
                THEN Max(0, One - Abs(feats[nm] - reference_features[nm]))
                ELSE 0]

\* The loop of compare_with_reference (lines 425-431): one similarity for
\* each item of `features` whose name is a reference feature.
PerFeatureSimilarities(feats) ==
    LET names == DOMAIN feats \cap DOMAIN reference_features
    IN  [key \in {SimilarityKey(nm) : nm \in names} |->
            LET nm == CHOOSE nm \in names : SimilarityKey(nm) = key
            IN  Max(0, One - Abs(feats[nm] - reference_features[nm]))]

\* compare_with_reference that averages over the whole reference vector.
compare_with_reference_MeanOverReference(feats) ==
    LET per == PerFeatureSimilarities(feats)
    IN  IF DOMAIN per # {}
        THEN per @@ ("overall_similarity" :>
                        SumValues(per) \div Cardinality(DOMAIN reference_features))
        ELSE per

\* compare_with_reference that reports an overall similarity of 0 when it
\* computed no similarity.
compare_with_reference_AlwaysOverall(feats) ==
    LET per == PerFeatureSimilarities(feats)
    IN  IF DOMAIN per # {}
        THEN per @@ ("overall_similarity" :>
                        SumValues(per) \div Cardinality(DOMAIN per))
        ELSE ("overall_similarity" :> 0)

\* compare_with_reference(features): the similarities and, if there is any,
\* np.mean of them under "overall_similarity".
compare_with_reference(feats) ==
    LET per == PerFeatureSimilarities(feats)
    IN  IF DOMAIN per # {}
        THEN per @@ ("overall_similarity" :>
                        SumValues(per) \div Cardinality(DOMAIN per))
        ELSE per

\* ---- inputs
MaxLines == 3

\* Variances of the Laplacian around the divisors 800 and 1000.
LaplacianSamples == {0, 400, 800, 1000, 1200}

\* Variances of the quadrant means around the divisor 5000.
QuadrantVarSamples == {0, 2500, 5000, 6000}

\* Line angles: horizontal, just inside and at the 0.2 rad tolerance, just
\* inside the tolerance of pi/2, straight down, and pointing left.
AngleSamples == {0, -199999, 200000, 1370797, -HalfPi, 2 * HalfPi}

LineLists == UNION {[1..n -> AngleSamples] : n \in 0..MaxLines}

\* Decoded uint8 images, and float32 tensors scaled to [0, 1].
FeatureImages ==
    [dtype : {"uint8"}, hi : {255}, laplacian_var : LaplacianSamples,
     quadrant_var : QuadrantVarSamples, line_angles : LineLists]
    \cup
    [dtype : {"float32"}, hi : {1}, laplacian_var : LaplacianSamples,
     quadrant_var : QuadrantVarSamples, line_angles : LineLists]

NoImage ==
    [dtype |-> "uint8", hi |-> 0, laplacian_var |-> 0, quadrant_var |-> 0,
     line_angles |-> << >>]

\* Feature values given to compare_with_reference: below 0, 0, two of the
\* reference values, and above 1.  All are multiples of One / 2000, so the
\* mean of up to five similarities is a whole number of 1/One.
CompareValueSamples ==
    {-(One \div 2), 0, (75 * One) \div 100, (80 * One) \div 100, 2 * One}

\* Every mapping of a subset of the six feature names to those values.
CompareInputs == UNION {[keys -> CompareValueSamples] : keys \in SUBSET FeatureNames}

ExplIdle ==
    /\ image_array = NoImage
    /\ visual_features = << >>
    /\ fpc = "idle"
    /\ cfeatures = << >>
    /\ comparison = << >>
    /\ cpc = "idle"

\* ---- extract_visual_features alone
FeaturesInit ==
    /\ image_array \in FeatureImages
    /\ visual_features = << >>
    /\ fpc = "call"
    /\ cfeatures = << >>
    /\ comparison = << >>
    /\ cpc = "idle"
    /\ ReasonsIdle
    /\ PrepIdle
    /\ ApiIdle
    /\ RateIdle
    /\ MetricsIdle

ExtractVisualFeatures ==
    /\ fpc = "call"
    /\ visual_features' = extract_visual_features(image_array)
    /\ fpc' = "done"
    /\ UNCHANGED <<image_array, cfeatures, comparison, cpc>>
    /\ UNCHANGED <<reasonVars, prepVars, apiVars, rateVars, metricVars>>

SpecFeatures == FeaturesInit /\ [][ExtractVisualFeatures]_vars

\* ---- compare_with_reference alone
CompareInit ==
    /\ cfeatures \in CompareInputs
    /\ comparison = << >>
    /\ cpc = "call"
    /\ image_array = NoImage
    /\ visual_features = << >>
    /\ fpc = "idle"
    /\ ReasonsIdle
    /\ PrepIdle
    /\ ApiIdle
    /\ RateIdle
    /\ MetricsIdle

CompareWithReference ==
    /\ cpc = "call"
    /\ comparison' = compare_with_reference(cfeatures)
    /\ cpc' = "done"
    /\ UNCHANGED <<cfeatures, image_array, visual_features, fpc>>
    /\ UNCHANGED <<reasonVars, prepVars, apiVars, rateVars, metricVars>>

SpecCompare == CompareInit /\ [][CompareWithReference]_vars

\* ---- validate_image alone, on default arguments
ValidateInit ==
    /\ image_bytes \in Buffers
    /\ apply_lighting_norm = TRUE
    /\ apply_glare_reduction = TRUE
    /\ detect_product = FALSE
    /\ vresult = NoResult
    /\ presult = Failed("not called", << >>)
    /\ ppc = "call"
    /\ ReasonsIdle
    /\ ApiIdle
    /\ ExplIdle
    /\ RateIdle
    /\ MetricsIdle

ValidateImage ==
    /\ ppc = "call"
    /\ vresult' = validate_image(image_bytes)
    /\ ppc' = "done"
    /\ UNCHANGED <<image_bytes, apply_lighting_norm, apply_glare_reduction,
                   detect_product, presult>>
    /\ UNCHANGED <<reasonVars, apiVars, explVars, rateVars, metricVars>>

SpecValidate == ValidateInit /\ [][ValidateImage]_vars

\* ---- preprocess, on every combination of its three switches
PreprocessInit ==
    /\ image_bytes \in Buffers
    /\ apply_lighting_norm \in BOOLEAN
    /\ apply_glare_reduction \in BOOLEAN
    /\ detect_product \in BOOLEAN
    /\ vresult = NoResult
    /\ presult = Failed("not called", << >>)
    /\ ppc = "call"
    /\ ReasonsIdle
    /\ ApiIdle
    /\ ExplIdle
    /\ RateIdle
    /\ MetricsIdle

Preprocess ==
    /\ ppc = "call"
    /\ presult' = preprocess(image_bytes, apply_lighting_norm,
                             apply_glare_reduction, detect_product)
    /\ ppc' = "done"
    /\ UNCHANGED <<image_bytes, apply_lighting_norm, apply_glare_reduction,
                   detect_product, vresult>>
    /\ UNCHANGED <<reasonVars, apiVars, explVars, rateVars, metricVars>>

SpecPreprocess == PreprocessInit /\ [][Preprocess]_vars

\* ---- the classify endpoint, serving up to MaxRequests uploads
MaxRequests == 3

ExtensionSamples == {"jpg", "gif"}

\* A JPEG upload of 10000 x `height` pixels.
Jpeg(size, height, loads, pixels) ==
    [size |-> size, opens |-> TRUE, format |-> "JPEG", verifies |-> TRUE,
     width |-> 10000, height |-> height, mode |-> "RGB", loads |-> loads,
     pixels |-> pixels]

GrayPixels == [laplacian_var |-> 0, bright_permille |-> 0, brightness |-> 128]
GlarePixels == [laplacian_var |-> 600, bright_permille |-> 51, brightness |-> 181]

\* Intact images with and without glare, a truncated one, one that is too
\* small, one that is too large a file, and two buffers PIL cannot open.
UploadBuffers ==
    { Jpeg(2048, 50, TRUE, GrayPixels), Jpeg(2048, 50, TRUE, GlarePixels),
      Jpeg(2048, 50, FALSE, NoPixels), Jpeg(2048, 30, TRUE, GrayPixels),
      Jpeg(max_file_size + 1, 50, TRUE, GrayPixels),
      Undecodable(2048), Undecodable(0) }

\* Uploads: the extension of the sanitized file name, the leading magic
\* bytes and the buffer.  A buffer PIL can open starts with the magic bytes
\* of its format; one it cannot open may still start with JPEG magic bytes.
\* The last one is a well-formed HEIC file named *.heic: it starts with an
\* ftyp box, not with one of the magic numbers validate_image_content knows,
\* and PIL has no HEIF decoder registered, so Image.open would reject it.
Uploads ==
    { u \in [ext : ExtensionSamples, head : {"JPEG", "other"}, buffer : UploadBuffers] :
        u.buffer.opens => u.head = u.buffer.format }
    \cup {[ext |-> "heic", head |-> "HEIC", buffer |-> Undecodable(2048)]}

\* What clf.predict returns; confidence is in percent.
Predictions ==
    [raised : {FALSE}, label : Labels, confidence : {55, 90}]
    \cup {[raised |-> TRUE, label |-> "", confidence |-> 0]}

\* What extract_visual_features computes on the image it is given.
ExtractedSamples ==
    { f \in FullFeatureMaps :
        /\ f.edge_sharpness = f.logo_clarity + 1
        /\ f.logo_clarity \in {59, 70}
        /\ f.text_alignment_score = 69
        /\ f.print_texture_score = 64
        /\ f.color_consistency = 70 /\ f.color_deviation = 30 }

ClassifyInit ==
    /\ feedback = [request_id |-> 0, status |-> 0, detail |-> "no feedback yet"]
    /\ health = [request_id |-> 0, status |-> "none", model_loaded |-> FALSE,
                 database_connected |-> FALSE]
    /\ made = NothingMade
    /\ last_call = NoCall
    /\ tf_available \in BOOLEAN
    /\ preprocessor = None
    /\ classifier = None
    /\ explainability = None
    /\ db = {}
    /\ nrequests = 0
    /\ request = NoUpload
    /\ response = [request_id |-> 0, status |-> 0, detail |-> "no request yet"]
    /\ explained = NotExplained
    /\ PrepIdle
    /\ ReasonsIdle
    /\ ExplIdle
    /\ RateIdle
    /\ MetricsIdle

\* The response of classify_image to one upload, given the components
\* get_components returned (lines 521-667).  `commits` is whether the
\* database accepts the row.
ClassifyResponse(n, upload, comps, pred, extracted, commits, tf, gradient_ok) ==
    LET content == validate_image_content(upload)
        pp == preprocess(upload.buffer, TRUE, TRUE, FALSE)
        ex == Explain(comps.explainability, pred.label, pred.confidence,
                      pp.image, extracted, tf, gradient_ok)
        stored == ~MetadataDictRaises(pp.metadata) /\ commits
        early(status, detail) ==
            [response |-> HttpError(n, status, detail), explained |-> NotExplained,
             stored |-> FALSE]
    IN  IF upload.ext \notin Range(settings_allowed_formats)
        THEN early(400, "Invalid file format. Allowed: "
                        \o Join(settings_allowed_formats, ", "))
        ELSE IF upload.buffer.size > max_file_size_mb * 1024 * 1024
        THEN early(400, "Error reading file: 400: File too large. Maximum size: "
                        \o ToString(max_file_size_mb) \o "MB")
        ELSE IF ~content.ok THEN early(400, content.reason)
        ELSE IF comps.raised THEN early(503, "Service initialization failed")
        ELSE IF comps.classifier = None \/ comps.classifier.model = "None"
        THEN early(503, "Model not loaded. Please train a model first.")
        ELSE IF pp.error # ""
        THEN early(400, "Preprocessing failed: 400: " \o pp.error)
        ELSE IF pred.raised THEN early(500, "Classification failed")
        ELSE [response |->
                 [request_id |-> n, status |-> 200,
                  label |-> pred.label,
                  confidence |-> pred.confidence,
                  heatmap_available |-> ex.heatmap_available,
                  explanations |-> ex.explanations,
                  low_confidence_warning |-> pred.confidence < confidence_threshold],
              explained |-> ex,
              stored |-> stored]

\* Whether the handler reaches get_components for this upload.
ReachesComponents(upload) ==
    /\ upload.ext \in Range(settings_allowed_formats)
    /\ upload.buffer.size <= max_file_size_mb * 1024 * 1024
    /\ validate_image_content(upload).ok

\* Whether the handler reaches clf.predict for this upload.
ReachesPredict(upload, comps) ==
    /\ ReachesComponents(upload)
    /\ ~comps.raised
    /\ comps.classifier # None
    /\ comps.classifier.model # "None"
    /\ preprocess(upload.buffer, TRUE, TRUE, FALSE).error = ""

\* The globals as they are, when get_components is not called.
NotCalled ==
    [raised |-> FALSE, preprocessor |-> preprocessor, classifier |-> classifier,
     explainability |-> explainability]

\* The history after a request: the instances its call of get_components
\* constructed, the classifier it was served by, and the call itself.
MadeAfter(comps, called) ==
    LET new(before, after) == IF after # before THEN {after.id} ELSE {}
    IN  [preprocessor |-> made.preprocessor \cup new(preprocessor, comps.preprocessor),
         classifier |-> made.classifier \cup new(classifier, comps.classifier),
         explainability |-> made.explainability
                              \cup new(explainability, comps.explainability),
         served |-> made.served
                      \cup (IF called /\ ~comps.raised /\ comps.classifier # None
                            THEN {comps.classifier.id} ELSE {}),
         failed |-> made.failed \/ comps.raised]

CallAfter(n, comps, called, can_build) ==
    [request_id |-> n, called |-> called, raised |-> comps.raised,
     can_build |-> can_build]

\* The inputs that decide nothing for the request at hand are not varied.
Some(set) == {CHOOSE x \in set : TRUE}

\* One request to POST /api/v1/classify.
ClassifyImage ==
    /\ nrequests < MaxRequests
    /\ \E upload \in Uploads :
       \E builds \in (IF ReachesComponents(upload) /\ classifier = None
                      THEN BOOLEAN ELSE {TRUE}) :
       \E file_exists \in (IF ReachesComponents(upload) /\ classifier = None /\ builds
                           THEN BOOLEAN ELSE {TRUE}) :
       \E loads \in (IF ReachesComponents(upload) /\ classifier = None /\ builds
                        /\ file_exists
                     THEN BOOLEAN ELSE {TRUE}) :
        LET n == nrequests + 1
            reached == ReachesComponents(upload)
            got == get_components(preprocessor, classifier, explainability,
                                  tf_available, builds, file_exists, loads, n)
            comps == IF reached THEN got ELSE NotCalled
            predicts == ReachesPredict(upload, comps)
        IN  \E pred \in (IF predicts THEN Predictions ELSE Some(Predictions)),
               extracted \in (IF predicts THEN ExtractedSamples
                              ELSE Some(ExtractedSamples)),
               commits \in (IF predicts THEN BOOLEAN ELSE {TRUE}),
               gradient_ok \in (IF predicts THEN BOOLEAN ELSE {TRUE}) :
            LET out == ClassifyResponse(n, upload, comps, pred, extracted, commits,
                                        tf_available, gradient_ok)
            IN  /\ nrequests' = n
                /\ request' = upload
                /\ preprocessor' = comps.preprocessor
                /\ classifier' = comps.classifier
                /\ explainability' = comps.explainability
                /\ response' = out.response
                /\ explained' = out.explained
                /\ db' = IF out.stored THEN db \cup {n} ELSE db
                /\ made' = MadeAfter(comps, reached)
                /\ last_call' = CallAfter(n, comps, reached, tf_available /\ builds)
    /\ UNCHANGED <<tf_available, feedback, health>>
    /\ UNCHANGED <<reasonVars, prepVars, explVars, rateVars, metricVars>>

\* One request to GET /api/v1/health.
HealthCheck ==
    /\ nrequests < MaxRequests
    /\ \E file_exists \in BOOLEAN, db_connected \in BOOLEAN :
       \E builds \in (IF file_exists /\ classifier = None THEN BOOLEAN ELSE {TRUE}),
          loads \in (IF file_exists /\ classifier = None THEN BOOLEAN ELSE {TRUE}) :
        LET n == nrequests + 1
            got == get_components(preprocessor, classifier, explainability,
                                  tf_available, builds, file_exists, loads, n)
            comps == IF file_exists THEN got ELSE NotCalled
        IN  /\ nrequests' = n
            /\ preprocessor' = comps.preprocessor
            /\ classifier' = comps.classifier
            /\ explainability' = comps.explainability
            /\ health' = health_check(n, file_exists, comps, db_connected)
            /\ made' = MadeAfter(comps, file_exists)
            /\ last_call' = CallAfter(n, comps, file_exists, tf_available /\ builds)
    /\ UNCHANGED <<tf_available, db, request, response, explained, feedback>>
    /\ UNCHANGED <<reasonVars, prepVars, explVars, rateVars, metricVars>>

\* One request to POST /api/v1/feedback that names the request id of the
\* latest successful classify response.
SubmitFeedback ==
    /\ response.status = 200
    /\ feedback.request_id # response.request_id
    /\ \E commits \in BOOLEAN :
         feedback' = submit_feedback(response.request_id, db, commits)
    /\ UNCHANGED <<tf_available, preprocessor, classifier, explainability, db,
                   nrequests, request, response, explained, health, made, last_call>>
    /\ UNCHANGED <<reasonVars, prepVars, explVars, rateVars, metricVars>>

ClassifyNext == ClassifyImage \/ HealthCheck \/ SubmitFeedback

SpecClassify == ClassifyInit /\ [][ClassifyNext]_vars

\* ---- generate_textual_reasons alone
ReasonsInit ==
    /\ features \in FeatureMaps
    /\ prediction \in Labels
    /\ confidence \in ConfidenceSamples
    /\ all_reasons = << >>
    /\ reasons = << >>
    /\ rpc = "call"
    /\ PrepIdle
    /\ ApiIdle
    /\ ExplIdle
    /\ RateIdle
    /\ MetricsIdle

\* One call of generate_textual_reasons on the inputs drawn by Init.
GenerateTextualReasons ==
    /\ rpc = "call"
    /\ all_reasons' = ReasonsBeforeTruncation(features, prediction, confidence)
    /\ reasons' = generate_textual_reasons(features, prediction, confidence)
    /\ rpc' = "done"
    /\ UNCHANGED <<features, prediction, confidence>>
    /\ UNCHANGED <<prepVars, apiVars, explVars, rateVars, metricVars>>

ReasonsNext == GenerateTextualReasons

SpecReasons == ReasonsInit /\ [][ReasonsNext]_vars

(***************************************************************************)
(* The rate limiter: requests of one client IP reach check_rate_limit in   *)
(* every process, and Redis expires the key when its time to live is over. *)
(***************************************************************************)
\* The window so far: no request yet, or `count` requests that came one
\* after another, the first of which created the key.
RateLimitInit ==
    /\ \E count \in {0, 1, rate_limit_per_hour - 1, rate_limit_per_hour} :
         /\ redis_key = IF count = 0 THEN None ELSE RedisKey(count, TRUE, 3600)
         /\ admitted = count
    /\ limiter = [p \in Processes |-> AtStart([kind |-> "not called"])]
    /\ checks = 0
    /\ ReasonsIdle
    /\ PrepIdle
    /\ ApiIdle
    /\ ExplIdle
    /\ MetricsIdle

\* current = redis_client.get(key); a RedisError is swallowed and the request
\* goes on without being counted.
RedisGet(p) ==
    /\ limiter[p].pc = "start"
    /\ checks < MaxChecks
    /\ checks' = checks + 1
    /\ \E redis_answers \in BOOLEAN :
         limiter' = [limiter EXCEPT ![p] =
                        IF redis_answers
                        THEN [pc |-> "got",
                              current |-> IF redis_key = None THEN None
                                          ELSE [kind |-> "str",
                                                value |-> redis_key.value],
                              outcome |-> @.outcome]
                        ELSE AtStart([kind |-> "RedisError ignored"])]
    /\ UNCHANGED <<redis_key, admitted>>
    /\ UNCHANGED <<reasonVars, prepVars, apiVars, explVars, metricVars>>

\* The branch on `current`: setex, 429, or incr.
RedisAct(p) ==
    /\ limiter[p].pc = "got"
    /\ \E redis_answers \in BOOLEAN :
         LET r == check_rate_limit(limiter[p].current, redis_key)
             writes == r.outcome = Passed
         IN  IF redis_answers \/ ~writes
             THEN /\ redis_key' = r.key
                  /\ limiter' = [limiter EXCEPT ![p] = AtStart(r.outcome)]
                  /\ admitted' = IF writes THEN admitted + 1 ELSE admitted
             ELSE /\ limiter' = [limiter EXCEPT ![p] =
                                     AtStart([kind |-> "RedisError ignored"])]
                  /\ UNCHANGED <<redis_key, admitted>>
    /\ UNCHANGED checks
    /\ UNCHANGED <<reasonVars, prepVars, apiVars, explVars, metricVars>>

\* Redis deletes a key whose time to live is over: the window ends.
KeyExpires ==
    /\ redis_key # None
    /\ redis_key.has_expiry
    /\ redis_key' = None
    /\ admitted' = 0
    /\ UNCHANGED <<limiter, checks>>
    /\ UNCHANGED <<reasonVars, prepVars, apiVars, explVars, metricVars>>

RateLimitNext ==
    \/ \E p \in Processes : RedisGet(p)
    \/ \E p \in Processes : RedisAct(p)
    \/ KeyExpires

SpecRateLimit == RateLimitInit /\ [][RateLimitNext]_vars

(***************************************************************************)
(* The metrics collector under concurrent callers.                         *)
(***************************************************************************)
MetricsInit ==
    /\ \E window_size \in 1..MaxWindow :
         metrics_collector = MetricsCollector(window_size)
    /\ threads = [t \in Threads |-> NotRunning]
    /\ ReasonsIdle
    /\ PrepIdle
    /\ ApiIdle
    /\ ExplIdle
    /\ RateIdle

\* A thread enters `with self.lock` of the method it called.
Enter(t, call) ==
    /\ threads[t].pc = "idle"
    /\ LockIsFree(metrics_collector)
    /\ metrics_collector' = [metrics_collector EXCEPT !.lock = t]
    /\ threads' = [threads EXCEPT ![t] = call]
    /\ UNCHANGED <<reasonVars, prepVars, apiVars, explVars, rateVars>>

RecordRequest(t) ==
    /\ metrics_collector.request_count < MaxRecorded
    /\ \E duration_ms \in {12, 250}, status_code \in StatusCodes :
         Enter(t, [method |-> "record_request", pc |-> "55",
                   duration_ms |-> duration_ms, status_code |-> status_code])

RecordClassification(t) ==
    /\ metrics_collector.classification_count < MaxRecorded
    /\ \E label \in {"Original", "Fake"},
          inference_time_ms \in {None, [kind |-> "float", value |-> 30]} :
         Enter(t, [method |-> "record_classification", pc |-> "83",
                   label |-> label, confidence |-> 90,
                   processing_time_ms |-> 80,
                   inference_time_ms |-> inference_time_ms])

Reset(t) ==
    Enter(t, [method |-> "reset", pc |-> "215"])

\* The thread executes its next line; after the last one it leaves the
\* `with` block, which releases the lock.
Line(t) ==
    /\ threads[t].pc # "idle"
    /\ \E now \in {1000} :
         LET th == threads[t]
             r == CASE th.method = "record_request" ->
                         record_request(metrics_collector, th, now)
                    [] th.method = "record_classification" ->
                         record_classification(metrics_collector, th)
                    [] th.method = "reset" -> reset(metrics_collector, th)
         IN  IF r.pc = "exit"
             THEN /\ metrics_collector' = [r.m EXCEPT !.lock = 0]
                  /\ threads' = [threads EXCEPT ![t] = NotRunning]
             ELSE /\ metrics_collector' = r.m
                  /\ threads' = [threads EXCEPT ![t].pc = r.pc]
    /\ UNCHANGED <<reasonVars, prepVars, apiVars, explVars, rateVars>>

MetricsNext ==
    \/ \E t \in Threads : RecordRequest(t)
    \/ \E t \in Threads : RecordClassification(t)
    \/ \E t \in Threads : Reset(t)
    \/ \E t \in Threads : Line(t)

SpecMetrics == MetricsInit /\ [][MetricsNext]_vars

(***************************************************************************)
(* C1: generate_textual_reasons returns at least 3 and at most 5 reasons, *)
(* for every feature mapping (also an empty one or one with missing       *)
(* keys), every label and every confidence.                               *)
(***************************************************************************)
C1_LengthThreeToFive ==
    rpc = "done" => Len(reasons) >= 3 /\ Len(reasons) <= 5

\* The call on an empty mapping returned three reasons.
C1_Witness ==
    rpc = "done" /\ DOMAIN features = {} /\ Len(reasons) = 3

(***************************************************************************)
(* C2: each feature rule's sentence is in the returned list exactly when  *)
(* the label is the rule's and the feature is present and strictly beyond *)
(* the threshold; truncation to 5 never removes a feature-rule sentence.  *)
(***************************************************************************)
C2_RuleTable ==
    { [label |-> "Fake", feature |-> "logo_clarity", below |-> TRUE, threshold |-> 60, sentence |-> FakeLogo],
      [label |-> "Fake", feature |-> "text_alignment_score", below |-> TRUE, threshold |-> 70, sentence |-> FakeText],
      [label |-> "Fake", feature |-> "color_deviation", below |-> FALSE, threshold |-> 30, sentence |-> FakeColor],
      [label |-> "Fake", feature |-> "print_texture_score", below |-> TRUE, threshold |-> 65, sentence |-> FakePrint],
      [label |-> "Fake", feature |-> "edge_sharpness", below |-> TRUE, threshold |-> 50, sentence |-> FakeEdge],
      [label |-> "Original", feature |-> "logo_clarity", below |-> FALSE, threshold |-> 70, sentence |-> OrigLogo],
      [label |-> "Original", feature |-> "text_alignment_score", below |-> FALSE, threshold |-> 70, sentence |-> OrigText],
      [label |-> "Original", feature |-> "color_consistency", below |-> FALSE, threshold |-> 70, sentence |-> OrigColor],
      [label |-> "Original", feature |-> "print_texture_score", below |-> FALSE, threshold |-> 70, sentence |-> OrigPrint],
      [label |-> "Original", feature |-> "edge_sharpness", below |-> FALSE, threshold |-> 60, sentence |-> OrigEdge] }

C2_Fires(rule) ==
    /\ prediction = rule.label
    /\ rule.feature \in DOMAIN features
    /\ IF rule.below THEN features[rule.feature] < rule.threshold
                     ELSE features[rule.feature] > rule.threshold

C2_RuleSentenceIffCondition ==
    rpc = "done" =>
        \A rule \in C2_RuleTable : (rule.sentence \in Range(reasons)) <=> C2_Fires(rule)

\* A Fake call whose print score is exactly 0.65 (no sentence) while the logo
\* score 0.59 fired its rule.
C2_Witness ==
    /\ rpc = "done"
    /\ prediction = "Fake"
    /\ Get(features, "print_texture_score", 0) = 65
    /\ Get(features, "logo_clarity", 0) = 59
    /\ FakeLogo \in Range(reasons)
    /\ FakePrint \notin Range(reasons)

(***************************************************************************)
(* C3: the returned list keeps the priority order logo, text alignment,   *)
(* color, print quality, edge sharpness, confidence summary, fallback;    *)
(* truncation to 5 only removes entries from the end.                     *)
(***************************************************************************)
C3_Priority(label) ==
    IF label = "Fake"
    THEN <<FakeLogo, FakeText, FakeColor, FakePrint, FakeEdge, FakeStrong, FakeWeak>>
         \o FakeFallback
    ELSE <<OrigLogo, OrigText, OrigColor, OrigPrint, OrigEdge, OrigStrong>>
         \o OriginalFallback

C3_Rank(label, sentence) ==
    LET pr == C3_Priority(label)
    IN  IF sentence \in Range(pr)
        THEN CHOOSE i \in DOMAIN pr : pr[i] = sentence
        ELSE 0

C3_PriorityOrderKept ==
    rpc = "done" =>
        /\ \A i \in DOMAIN reasons : C3_Rank(prediction, reasons[i]) > 0
        /\ \A i, j \in DOMAIN reasons :
              i < j => C3_Rank(prediction, reasons[i]) < C3_Rank(prediction, reasons[j])
        /\ Len(reasons) <= Len(all_reasons)
        /\ reasons = SubSeq(all_reasons, 1, Len(reasons))

\* An Original call where the logo rule and the edge rule both fired and the
\* six rule reasons were cut to five.
C3_Witness ==
    /\ rpc = "done"
    /\ prediction = "Original"
    /\ OrigLogo \in Range(reasons)
    /\ OrigEdge \in Range(reasons)
    /\ Len(all_reasons) = 6
    /\ Len(reasons) = 5

(***************************************************************************)
(* C4: exactly one confidence tier applies and at most one summary        *)
(* sentence is appended: Fake gets the strong summary when confidence >   *)
(* 85, else the weaker one when confidence > 70, else none; Original gets *)
(* a summary only when confidence > 85.                                   *)
(***************************************************************************)
C4_Summaries == {FakeStrong, FakeWeak, OrigStrong}

C4_Count(s, set) == Cardinality({i \in DOMAIN s : s[i] \in set})

C4_OneConfidenceTier ==
    rpc = "done" =>
        /\ C4_Count(all_reasons, C4_Summaries) <= 1
        /\ FakeStrong \in Range(all_reasons) <=> (prediction = "Fake" /\ confidence > 85)
        /\ FakeWeak \in Range(all_reasons)
              <=> (prediction = "Fake" /\ confidence > 70 /\ confidence <= 85)
        /\ OrigStrong \in Range(all_reasons) <=> (prediction = "Original" /\ confidence > 85)
        /\ Range(reasons) \cap C4_Summaries \subseteq Range(all_reasons)

\* A Fake call with confidence exactly 85 returned the weaker summary.
C4_Witness ==
    /\ rpc = "done"
    /\ prediction = "Fake"
    /\ confidence = 85
    /\ FakeWeak \in Range(reasons)
    /\ FakeStrong \notin Range(reasons)

(***************************************************************************)
(* C5 (as claimed): fallback sentences are appended only until the list   *)
(* holds 3 reasons, so a list that needed fallback has exactly 3 entries, *)
(* and a list with 3 or more rule reasons has no fallback sentence.       *)
(***************************************************************************)
C5_Fallbacks == Range(FakeFallback) \cup Range(OriginalFallback)

C5_RuleCount == Len(all_reasons) - C4_Count(all_reasons, C5_Fallbacks)

C5_FallbackOnlyUntilThree ==
    rpc = "done" =>
        /\ C5_RuleCount < 3 => Len(reasons) = 3
        /\ C5_RuleCount >= 3 => C4_Count(reasons, C5_Fallbacks) = 0

(***************************************************************************)
(* C5 (amended): when the rules produce k < 3 reasons, all three fallback *)
(* sentences of the predicted label are appended in their fixed order, so *)
(* the list has k + 3 entries (3, 4 or 5); a list with 3 or more rule     *)
(* reasons has no fallback sentence.                                      *)
(***************************************************************************)
C5_AllThreeFallbacksAppended ==
    rpc = "done" =>
        /\ C5_RuleCount < 3 =>
              /\ Len(reasons) = C5_RuleCount + 3
              /\ SubSeq(reasons, C5_RuleCount + 1, C5_RuleCount + 3)
                    = (IF prediction = "Fake" THEN FakeFallback ELSE OriginalFallback)
        /\ C5_RuleCount >= 3 => C4_Count(reasons, C5_Fallbacks) = 0

\* A call with two rule reasons returned five entries, three of them fallback.
C5_Witness ==
    /\ rpc = "done"
    /\ C5_RuleCount = 2
    /\ Len(reasons) = 5
    /\ C4_Count(reasons, C5_Fallbacks) = 3

(***************************************************************************)
(* C6: every successful response of the classify operation carries a list *)
(* of 3 to 5 textual explanations, for both labels, whenever the          *)
(* explainability module is available.                                    *)
(***************************************************************************)
C6_ResponseHasThreeToFiveExplanations ==
    response.status = 200 /\ explained.expl_available =>
        /\ Len(response.explanations) >= 3
        /\ Len(response.explanations) <= 5

(***************************************************************************)
(* C7: in the classify flow the visual features are extracted from the    *)
(* original decoded image, never from the resized and value-normalized    *)
(* tensor that preprocess returns.                                        *)
(***************************************************************************)
C7_FeaturesFromDecodedImage ==
    explained.features_image # None =>
        /\ explained.features_image.history = <<"decode_image">>
        /\ explained.features_image.dtype = "uint8"

(***************************************************************************)
(* C8: validate_image runs its checks in the order non-empty, size <= max, *)
(* declared format allowed, not corrupt, 50 <= width,height <= 10000,     *)
(* mode in {RGB, RGBA, L, P}, and returns the reason of the first failing *)
(* check only: an oversized file of a disallowed format reports the size  *)
(* error, a 30x30 image of a disallowed format the format error.          *)
(***************************************************************************)
C8_Failing(b) ==
    << b.size = 0,
       b.size > 10 * 1024 * 1024,
       ~b.opens \/ b.format \notin {"JPEG", "JPG", "PNG", "HEIC"},
       ~b.verifies,
       b.width < 50 \/ b.height < 50 \/ b.width > 10000 \/ b.height > 10000,
       b.mode \notin {"RGB", "RGBA", "L", "P"} >>

C8_FirstFailing(b) ==
    LET failing == {k \in 1..6 : C8_Failing(b)[k]}
    IN  IF failing = {} THEN 0
        ELSE CHOOSE k \in failing : \A j \in failing : k <= j

C8_ReasonsOf(k) ==
    CASE k = 1 -> {"Image file is empty"}
      [] k = 2 -> {"Image file exceeds 10MB limit"}
      [] k = 3 -> {"Unable to decode image file: cannot identify image file"}
                  \cup {"Unsupported file format: " \o f
                        \o ". Allowed formats: JPEG, JPG, PNG, HEIC" : f \in FormatSamples}
      [] k = 4 -> {"Unable to decode image file: broken data stream when reading image file"}
      [] k = 5 -> {"Image dimensions too small (minimum 50x50 pixels)",
                   "Image dimensions too large (maximum 10000x10000 pixels)"}
      [] k = 6 -> {"Unsupported image mode: " \o m : m \in ModeSamples}

C8_FirstFailingCheckReported ==
    ppc = "done" /\ vresult # NoResult =>
        LET k == C8_FirstFailing(image_bytes)
        IN  /\ k = 0 => vresult.ok /\ vresult.reason = ""
            /\ k > 0 => ~vresult.ok /\ vresult.reason \in C8_ReasonsOf(k)

\* An oversized GIF was answered with the size reason.
C8_Witness ==
    /\ ppc = "done"
    /\ image_bytes.size > max_file_size
    /\ image_bytes.format = "GIF"
    /\ image_bytes.width = 30 /\ image_bytes.height = 30
    /\ vresult.reason = "Image file exceeds 10MB limit"

(***************************************************************************)
(* C9: for every byte buffer validate_image returns and never raises:     *)
(* either (True, "") or (False, reason) with a non-empty reason.          *)
(***************************************************************************)
C9_StructuredResult ==
    ppc = "done" /\ vresult # NoResult =>
        /\ ~vresult.raised
        /\ vresult.ok \in BOOLEAN
        /\ vresult.ok <=> vresult.reason = ""

\* A buffer of an allowed format that verify() rejects was answered with a reason.
C9_Witness ==
    /\ ppc = "done"
    /\ image_bytes.opens /\ ~image_bytes.verifies
    /\ image_bytes.format = "PNG"
    /\ image_bytes.size <= max_file_size
    /\ ~vresult.raised /\ ~vresult.ok
    /\ vresult.reason = "Unable to decode image file: " \o VerifyError

(***************************************************************************)
(* C10: when validation or decoding fails, preprocess returns no image,   *)
(* an empty metadata mapping and exactly the reason of the failing stage, *)
(* and calls no later stage; when it succeeds it returns an image, a      *)
(* metadata record with all seven fields and an empty error string.       *)
(***************************************************************************)
C10_MetadataFields ==
    {"original_width", "original_height", "file_format", "file_size_bytes",
     "quality_score", "has_glare", "preprocessing_applied"}

C10_FailureIsTerminal ==
    ppc = "done" /\ presult.error # "not called" =>
        LET v == validate_image(image_bytes)
            d == decode_image(image_bytes)
        IN  /\ ~v.ok =>
                /\ presult.image = None
                /\ DOMAIN presult.metadata = {}
                /\ presult.error = v.reason /\ presult.error # ""
                /\ presult.calls = <<"validate_image">>
            /\ v.ok /\ d.image = None =>
                /\ presult.image = None
                /\ DOMAIN presult.metadata = {}
                /\ presult.error = d.error /\ presult.error # ""
                /\ presult.calls = <<"validate_image", "decode_image">>
            /\ v.ok /\ d.image # None =>
                /\ presult.image # None
                /\ presult.image.width > 0 /\ presult.image.height > 0
                /\ DOMAIN presult.metadata = C10_MetadataFields
                /\ presult.error = ""

\* A buffer that passed validation but could not be loaded: preprocess
\* stopped after decode_image with its reason.
C10_Witness ==
    /\ ppc = "done"
    /\ validate_image(image_bytes).ok
    /\ ~image_bytes.loads
    /\ presult.image = None
    /\ presult.error = "Failed to decode image: image file is truncated"
    /\ presult.calls = <<"validate_image", "decode_image">>

(***************************************************************************)
(* C11: after a successful preprocess, preprocessing_applied is an         *)
(* order-preserving sub-list of <<glare_reduction, lighting_normalization, *)
(* product_detection, resize, normalize>> without duplicates, and its last *)
(* two entries are resize, normalize.                                      *)
(***************************************************************************)
C11_Pipeline ==
    <<"glare_reduction", "lighting_normalization", "product_detection",
      "resize", "normalize">>

C11_Position(step) == CHOOSE i \in DOMAIN C11_Pipeline : C11_Pipeline[i] = step

C11_Succeeded == ppc = "done" /\ presult.image # None

C11_AppliedIsOrderedSublist ==
    C11_Succeeded =>
        LET applied == presult.metadata.preprocessing_applied
            n == Len(applied)
        IN  /\ \A i \in 1..n : applied[i] \in Range(C11_Pipeline)
            /\ \A i, j \in 1..n :
                 i < j => C11_Position(applied[i]) < C11_Position(applied[j])
            /\ n >= 2
            /\ applied[n - 1] = "resize"
            /\ applied[n] = "normalize"

\* A run with every switch on and an image with glare: all five steps.
C11_Witness ==
    /\ C11_Succeeded
    /\ apply_glare_reduction /\ apply_lighting_norm /\ detect_product
    /\ presult.metadata.preprocessing_applied = C11_Pipeline

(***************************************************************************)
(* C12: in a successful preprocess, glare_reduction is recorded iff        *)
(* apply_glare_reduction is on and the reported has_glare is true,         *)
(* lighting_normalization iff apply_lighting_norm is on, product_detection *)
(* iff detect_product is on; with the default arguments product_detection  *)
(* never appears and lighting_normalization always does.                   *)
(***************************************************************************)
C12_Recorded(step) == step \in Range(presult.metadata.preprocessing_applied)

C12_DefaultArguments ==
    apply_lighting_norm /\ apply_glare_reduction /\ ~detect_product

C12_StepRecordedIffRan ==
    C11_Succeeded =>
        /\ C12_Recorded("glare_reduction")
             <=> (apply_glare_reduction /\ presult.metadata.has_glare)
        /\ C12_Recorded("lighting_normalization") <=> apply_lighting_norm
        /\ C12_Recorded("product_detection") <=> detect_product
        /\ C12_DefaultArguments =>
             /\ ~C12_Recorded("product_detection")
             /\ C12_Recorded("lighting_normalization")

\* The default arguments on an image without glare: only the lighting step
\* is added to the two fixed ones.
C12_Witness ==
    /\ C11_Succeeded
    /\ C12_DefaultArguments
    /\ ~presult.metadata.has_glare
    /\ presult.metadata.preprocessing_applied
         = <<"lighting_normalization", "resize", "normalize">>

(***************************************************************************)
(* C13: after a successful preprocess original_width and original_height   *)
(* are the dimensions of the decoded image and lie in 50..10000; a side of *)
(* exactly 50 or 10000 is accepted, a side below 50 or above 10000 is      *)
(* rejected with the minimum- or maximum-dimension reason.                 *)
(***************************************************************************)
C13_TooSmall == "Image dimensions too small (minimum 50x50 pixels)"
C13_TooLarge == "Image dimensions too large (maximum 10000x10000 pixels)"

\* The buffer passes every check that precedes the dimension check.
C13_ReachesDimensionCheck ==
    /\ image_bytes.size > 0 /\ image_bytes.size <= max_file_size
    /\ image_bytes.opens
    /\ image_bytes.format \in Range(allowed_formats)
    /\ image_bytes.verifies

C13_DimensionsWithinLimits ==
    ppc = "done" /\ presult.error # "not called" =>
        /\ presult.image # None =>
             /\ presult.metadata.original_width = image_bytes.width
             /\ presult.metadata.original_height = image_bytes.height
             /\ presult.metadata.original_width \in 50..10000
             /\ presult.metadata.original_height \in 50..10000
        /\ ( /\ C13_ReachesDimensionCheck
             /\ image_bytes.width \in {50, 10000}
             /\ image_bytes.height \in {50, 10000}
             /\ image_bytes.mode \in AcceptedModes
             /\ image_bytes.loads ) => presult.image # None
        /\ ( /\ C13_ReachesDimensionCheck
             /\ \/ image_bytes.width \notin 50..10000
                \/ image_bytes.height \notin 50..10000 ) =>
             /\ presult.image = None
             /\ presult.error \in {C13_TooSmall, C13_TooLarge}
             /\ (image_bytes.width < 50 \/ image_bytes.height < 50)
                  => presult.error = C13_TooSmall

\* An image of exactly 50 x 10000 pixels went through.
C13_Witness ==
    /\ ppc = "done"
    /\ presult.image # None
    /\ presult.metadata.original_width = 50
    /\ presult.metadata.original_height = 10000

(***************************************************************************)
(* C14: has_glare is true iff the share of pixels brighter than 240 is     *)
(* strictly above 5% and the mean luminance strictly above 180; a share of *)
(* exactly 5% or a mean of exactly 180 gives has_glare false.              *)
(***************************************************************************)
C14_GlareIffBothAboveThreshold ==
    C11_Succeeded =>
        LET px == image_bytes.pixels
        IN  /\ presult.metadata.has_glare
                 <=> (px.bright_permille > 50 /\ px.brightness > 180)
            /\ px.bright_permille = 50 => ~presult.metadata.has_glare
            /\ px.brightness = 180 => ~presult.metadata.has_glare

\* A bright image with exactly 5% of its pixels above 240: no glare.
C14_Witness ==
    /\ C11_Succeeded
    /\ image_bytes.pixels.bright_permille = 50
    /\ image_bytes.pixels.brightness > 180
    /\ ~presult.metadata.has_glare

(***************************************************************************)
(* C15: quality_score is min(laplacian_variance / 500, 1) without glare    *)
(* and 0.8 times that with glare; it is always within [0, 1] and at most   *)
(* 0.8 when has_glare is true (scores in ten-thousandths).                 *)
(***************************************************************************)
C15_BlurScore ==
    IF image_bytes.pixels.laplacian_var >= 500 THEN 10000
    ELSE 20 * image_bytes.pixels.laplacian_var

C15_QualityScoreFormula ==
    C11_Succeeded =>
        LET m == presult.metadata
        IN  /\ ~m.has_glare => m.quality_score = C15_BlurScore
            /\ m.has_glare => 10 * m.quality_score = 8 * C15_BlurScore
            /\ m.quality_score \in 0..10000
            /\ m.has_glare => m.quality_score <= 8000

\* A sharp image (variance above 500) with glare: the score is exactly 0.8.
C15_Witness ==
    /\ C11_Succeeded
    /\ image_bytes.pixels.laplacian_var > 500
    /\ presult.metadata.has_glare
    /\ presult.metadata.quality_score = 8000

(***************************************************************************)
(* C16: extract_visual_features returns exactly the six named features,    *)
(* each within [0, 1], with color_deviation = 1 - color_consistency and    *)
(* logo_clarity = edge_sharpness.                                          *)
(***************************************************************************)
C16_SixFeaturesInUnitRange ==
    fpc = "done" =>
        /\ DOMAIN visual_features = FeatureNames
        /\ \A k \in DOMAIN visual_features : visual_features[k] \in 0..One
        /\ visual_features.color_deviation = One - visual_features.color_consistency
        /\ visual_features.logo_clarity = visual_features.edge_sharpness

\* A decoded image whose quadrants differ by more than the normalisation
\* range and whose Laplacian variance is above both divisors: the clamps
\* act, consistency is 0 and deviation 1.
C16_Witness ==
    /\ fpc = "done"
    /\ image_array.dtype = "uint8"
    /\ image_array.quadrant_var > 5000
    /\ image_array.laplacian_var > 1000
    /\ visual_features.color_consistency = 0
    /\ visual_features.color_deviation = One
    /\ visual_features.logo_clarity = One

(***************************************************************************)
(* C17: text_alignment_score is 0.5 when no line was detected, otherwise   *)
(* (horizontal + vertical) / total_lines, where a line is horizontal when  *)
(* its angle is within 0.2 rad of 0 and vertical when within 0.2 rad of    *)
(* pi/2; no line is in both groups and the score is within [0, 1].         *)
(***************************************************************************)
C17_Angle(i) == Abs(image_array.line_angles[i])

C17_Horizontal ==
    {i \in DOMAIN image_array.line_angles : C17_Angle(i) < 200000}

C17_Vertical ==
    {i \in DOMAIN image_array.line_angles :
        C17_Angle(i) > HalfPi - 200000 /\ C17_Angle(i) < HalfPi + 200000}

C17_AlignmentIsShareOfAlignedLines ==
    fpc = "done" =>
        LET total_lines == Len(image_array.line_angles)
            score == visual_features.text_alignment_score
        IN  /\ total_lines = 0 => 2 * score = One
            /\ total_lines > 0 =>
                 score * total_lines
                    = (Cardinality(C17_Horizontal) + Cardinality(C17_Vertical)) * One
            /\ C17_Horizontal \cap C17_Vertical = {}
            /\ score \in 0..One

\* Three lines: one horizontal, one vertical and one pointing left, which
\* is in neither group; the score is 2/3.
C17_Witness ==
    /\ fpc = "done"
    /\ Len(image_array.line_angles) = 3
    /\ Cardinality(C17_Horizontal) = 1
    /\ Cardinality(C17_Vertical) = 1
    /\ 2 * HalfPi \in Range(image_array.line_angles)
    /\ 3 * visual_features.text_alignment_score = 2 * One

(***************************************************************************)
(* C18: each "<feature>_similarity" of compare_with_reference equals       *)
(* max(0, 1 - |value - reference|) and is within [0, 1]; overall_similarity*)
(* is the arithmetic mean of exactly the per-feature similarities returned *)
(* (not of itself; a feature without reference value, such as              *)
(* color_deviation, contributes nothing).                                  *)
(***************************************************************************)
C18_PerFeatureKeys == DOMAIN comparison \ {"overall_similarity"}

C18_Distance(nm) ==
    IF cfeatures[nm] >= reference_features[nm]
    THEN cfeatures[nm] - reference_features[nm]
    ELSE reference_features[nm] - cfeatures[nm]

C18_SimilarityFormulaAndMean ==
    cpc = "done" =>
        /\ \A nm \in DOMAIN cfeatures \cap DOMAIN reference_features :
             /\ SimilarityKey(nm) \in DOMAIN comparison
             /\ comparison[SimilarityKey(nm)]
                  = (IF C18_Distance(nm) >= One THEN 0 ELSE One - C18_Distance(nm))
        /\ \A key \in DOMAIN comparison : comparison[key] \in 0..One
        /\ "color_deviation_similarity" \notin DOMAIN comparison
        /\ "overall_similarity" \in DOMAIN comparison =>
             comparison["overall_similarity"] * Cardinality(C18_PerFeatureKeys)
                = SumValues([key \in C18_PerFeatureKeys |-> comparison[key]])

\* color_deviation and three reference features: three similarities, and
\* their mean strictly between 0 and 1.
C18_Witness ==
    /\ cpc = "done"
    /\ "color_deviation" \in DOMAIN cfeatures
    /\ Cardinality(DOMAIN cfeatures) = 4
    /\ Cardinality(C18_PerFeatureKeys) = 3
    /\ "overall_similarity" \in DOMAIN comparison
    /\ comparison["overall_similarity"] > 0
    /\ comparison["overall_similarity"] < One

(***************************************************************************)
(* C19: compare_with_reference returns an empty mapping for an empty       *)
(* feature mapping; overall_similarity is present iff at least one         *)
(* per-feature similarity was computed, so an input with only              *)
(* non-reference features (only color_deviation) gives an empty mapping.   *)
(***************************************************************************)
C19_OverallIffSomeSimilarity ==
    cpc = "done" =>
        /\ DOMAIN cfeatures = {} => DOMAIN comparison = {}
        /\ "overall_similarity" \in DOMAIN comparison
             <=> (\E key \in DOMAIN comparison : key # "overall_similarity")
        /\ "overall_similarity" \in DOMAIN comparison
             <=> (DOMAIN cfeatures \cap DOMAIN reference_features # {})
        /\ DOMAIN cfeatures \cap DOMAIN reference_features = {}
             => DOMAIN comparison = {}

\* Only color_deviation was given: nothing comes back.
C19_Witness ==
    /\ cpc = "done"
    /\ DOMAIN cfeatures = {"color_deviation"}
    /\ DOMAIN comparison = {}

(***************************************************************************)
(* C20 as stated: a reference feature missing from the feature mapping is  *)
(* reported with a similarity of 0 rather than left out.                   *)
(***************************************************************************)
C20_MissingFeatures == DOMAIN reference_features \ DOMAIN cfeatures

C20_MissingFeatureReportedAsZero ==
    cpc = "done" =>
        \A nm \in C20_MissingFeatures :
            /\ SimilarityKey(nm) \in DOMAIN comparison
            /\ comparison[SimilarityKey(nm)] = 0

(***************************************************************************)
(* C20 amended: a reference feature missing from the feature mapping is    *)
(* left out of the result (no "<feature>_similarity" key, and no share in  *)
(* overall_similarity); the comparison does not fail.                      *)
(***************************************************************************)
C20_MissingFeatureLeftOut ==
    cpc = "done" =>
        /\ \A nm \in C20_MissingFeatures : SimilarityKey(nm) \notin DOMAIN comparison
        /\ Cardinality(DOMAIN comparison \ {"overall_similarity"})
             = Cardinality(DOMAIN reference_features \ C20_MissingFeatures)

\* Only logo_clarity was given, at its reference value: one similarity of 1
\* and an overall similarity of 1, nothing for the four missing features.
C20_Witness ==
    /\ cpc = "done"
    /\ DOMAIN cfeatures = {"logo_clarity"}
    /\ cfeatures["logo_clarity"] = reference_features["logo_clarity"]
    /\ DOMAIN comparison = {"logo_clarity_similarity", "overall_similarity"}
    /\ comparison["overall_similarity"] = One

(***************************************************************************)
(* C22: every successful preprocess returns a float32 tensor of exactly    *)
(* target_size x target_size x 3 with all values in [0, 1], whatever the   *)
(* aspect ratio of the input and whichever optional steps ran.             *)
(***************************************************************************)
C22_TensorShapeAndRange ==
    C11_Succeeded =>
        /\ presult.image.width = target_image_size
        /\ presult.image.height = target_image_size
        /\ presult.image.channels = 3
        /\ presult.image.dtype = "float32"
        /\ presult.image.lo >= 0
        /\ presult.image.hi <= 1

\* A 50 x 10000 image that went through glare reduction, lighting
\* normalization and the product crop came out 224 x 224.
C22_Witness ==
    /\ C11_Succeeded
    /\ image_bytes.width = 50 /\ image_bytes.height = 10000
    /\ presult.metadata.preprocessing_applied = C11_Pipeline
    /\ presult.image.width = 224 /\ presult.image.height = 224
    /\ presult.image.hi = 1

(***************************************************************************)
(* C27: the confidence summary selected by the confidence tier is in the   *)
(* returned list iff fewer than five feature rules fired (with five, the   *)
(* cut to 5 drops it).  For label Fake, logo_clarity 0.3, every other      *)
(* feature 0.65 and confidence 90 the list holds the logo sentence and the *)
(* strong counterfeit summary.                                             *)
(***************************************************************************)
C27_RulesFired == Cardinality({rule \in C2_RuleTable : C2_Fires(rule)})

C27_SelectedSummary ==
    IF prediction = "Fake" /\ confidence > 85 THEN {FakeStrong}
    ELSE IF prediction = "Fake" /\ confidence > 70 THEN {FakeWeak}
    ELSE IF prediction = "Original" /\ confidence > 85 THEN {OrigStrong}
    ELSE {}

C27_SummaryKeptIffFewerThanFiveRules ==
    rpc = "done" =>
        /\ \A s \in C27_SelectedSummary :
              s \in Range(reasons) <=> C27_RulesFired < 5
        /\ ( /\ prediction = "Fake"
             /\ features = BlurredLogoFeatures
             /\ confidence = 90 ) =>
               /\ FakeLogo \in Range(reasons)
               /\ FakeStrong \in Range(reasons)
               /\ Len(reasons) \in 3..5

\* All five Fake rules fired at confidence 86: the strong summary was
\* selected and the cut dropped it.
C27_Witness ==
    /\ rpc = "done"
    /\ prediction = "Fake"
    /\ confidence = 86
    /\ C27_RulesFired = 5
    /\ FakeStrong \in Range(all_reasons)
    /\ FakeStrong \notin Range(reasons)
    /\ Len(reasons) = 5

C24_LabelOnlyFromTrainedModel ==
    response.status = 200 =>
        /\ classifier # None
        /\ classifier.model = "trained"

(***************************************************************************)
(* C25: an upload in a documented format (JPEG, PNG, HEIC) with matching   *)
(* extension and well-formed content of at most 10 MB passes the           *)
(* extension, size and magic-byte checks of classify and reaches the       *)
(* preprocessing pipeline.                                                 *)
(***************************************************************************)
C25_WellFormed(upload) ==
    /\ upload.buffer.size > 0
    /\ upload.buffer.size <= 10 * 1024 * 1024
    /\ \/ /\ upload.ext \in {"jpg", "jpeg"} /\ upload.head = "JPEG"
          /\ upload.buffer.opens /\ upload.buffer.format = "JPEG"
          /\ upload.buffer.verifies /\ upload.buffer.loads
       \/ /\ upload.ext = "png" /\ upload.head = "PNG"
          /\ upload.buffer.opens /\ upload.buffer.format = "PNG"
          /\ upload.buffer.verifies /\ upload.buffer.loads
       \/ upload.ext = "heic" /\ upload.head = "HEIC"

C25_PreCheckRejections ==
    { "Invalid file format. Allowed: jpeg, jpg, png, heic",
      "Error reading file: 400: File too large. Maximum size: 10MB",
      "File too small to be a valid image",
      "File does not appear to be a valid image format" }

C25_SupportedUploadReachesPreprocessing ==
    response.request_id > 0 /\ C25_WellFormed(request) =>
        ~(response.status = 400 /\ response.detail \in C25_PreCheckRejections)

(***************************************************************************)
(* C26: after a classify request returned a successful response with      *)
(* request_id r, a classification record with request_id r is stored, so a *)
(* later feedback submission naming r is not answered 404.                 *)
(***************************************************************************)
C26_SuccessfulClassificationIsStored ==
    /\ response.status = 200 => response.request_id \in db
    /\ feedback.status # 404

(***************************************************************************)
(* C30: over any sequence of classify and health requests get_components   *)
(* constructs the preprocessor, the classifier and the explainability      *)
(* module at most once each, every request is served by the same           *)
(* classifier instance, and a failed classifier construction leaves the    *)
(* handle unset, so that the next call constructs it.                      *)
(***************************************************************************)
C30_ComponentsConstructedOnce ==
    /\ Cardinality(made.preprocessor) <= 1
    /\ Cardinality(made.classifier) <= 1
    /\ Cardinality(made.explainability) <= 1
    /\ Cardinality(made.served) <= 1
    /\ made.served \subseteq made.classifier
    /\ classifier # None => made.classifier = {classifier.id}
    /\ last_call.called /\ last_call.raised => classifier = None
    /\ last_call.called /\ last_call.can_build =>
         /\ ~last_call.raised
         /\ classifier # None

\* Three requests, a health check and a classify request among them: one
\* call failed to construct the classifier, a later one constructed it, and
\* the requests served since share that one instance.
C30_Witness ==
    /\ nrequests = 3
    /\ health.request_id > 0
    /\ response.request_id > 0
    /\ made.failed
    /\ classifier # None
    /\ Cardinality(made.classifier) = 1
    /\ Cardinality(made.served) = 1
    /\ classifier.id = 2

(***************************************************************************)
(* C23: with Redis answering, at most rate_limit_per_hour calls of         *)
(* check_rate_limit for one client IP pass within one window of the key,   *)
(* however the calls of the server processes interleave, and a rejected    *)
(* call is a 429 with a Retry-After header.                                *)
(***************************************************************************)
C23_AtMostLimitAdmittedPerWindow ==
    /\ admitted <= rate_limit_per_hour
    /\ \A p \in Processes :
         limiter[p].outcome.kind = "HTTPException" =>
             /\ limiter[p].outcome.status_code = 429
             /\ limiter[p].outcome.retry_after = "3600"

(***************************************************************************)
(* C28: whenever the key rate_limit:<ip> exists it has a time to live, of  *)
(* at most 3600 seconds, so that a client answered 429 is admitted again   *)
(* after the key expired.                                                  *)
(***************************************************************************)
C28_KeyAlwaysExpires ==
    redis_key # None => redis_key.has_expiry /\ redis_key.ttl <= 3600

(***************************************************************************)
(* C29: when no thread is inside record_request, record_classification or  *)
(* reset, the collector has error_count <= request_count, the error_types  *)
(* counts add up to error_count, rate_limit_hits = error_types[429] <=     *)
(* error_count, no window longer than window_size, and request_times and   *)
(* request_timestamps of the same length min(window_size, request_count),  *)
(* request_count being the requests recorded since the last reset.         *)
(***************************************************************************)
C29_Min(a, b) == IF a <= b THEN a ELSE b

C29_ErrorTotal(m) ==
    m.error_types[200] + m.error_types[404] + m.error_types[429]

C29_Quiescent == \A t \in Threads : threads[t].pc = "idle"

C29_CollectorInvariants ==
    C29_Quiescent =>
        LET m == metrics_collector
        IN  /\ m.error_count <= m.request_count
            /\ C29_ErrorTotal(m) = m.error_count
            /\ m.rate_limit_hits = m.error_types[429]
            /\ m.rate_limit_hits <= m.error_count
            /\ Len(m.request_times) <= m.window_size
            /\ Len(m.request_timestamps) <= m.window_size
            /\ Len(m.classification_times) <= m.window_size
            /\ Len(m.classification_labels) <= m.window_size
            /\ Len(m.confidence_scores) <= m.window_size
            /\ Len(m.inference_times) <= m.window_size
            /\ Len(m.request_times) = Len(m.request_timestamps)
            /\ Len(m.request_times) = C29_Min(m.window_size, m.request_count)

\* More requests than the window holds were recorded, one of them a 429 and
\* one another error, and a classification with an inference time.
C29_Witness ==
    /\ C29_Quiescent
    /\ metrics_collector.request_count > metrics_collector.window_size
    /\ metrics_collector.window_size > 1
    /\ metrics_collector.rate_limit_hits = 1
    /\ metrics_collector.error_count = 2
    /\ Len(metrics_collector.inference_times) = 1
    /\ metrics_collector.classification_count = 2

========================================================================
